---- MODULE Spec2Model ----
(***************************************************************************)
(* Room reservation system (Node.js / Express / Mongoose).                 *)
(*                                                                         *)
(* The model covers the reservation controller, the Reservation model's   *)
(* statics and methods, the Joi request schemas, the route middleware,     *)
(* the room-catalog operations that write rooms, and the user controller.  *)
(* Times are integers in milliseconds, as JavaScript Dates are.            *)
(*                                                                         *)
(* The specifications share the same state and differ in the requests     *)
(* they issue:                                                             *)
(*   Spec, SpecPolicy, SpecLifecycle, SpecRecancel, SpecReadOnly,          *)
(*   SpecBody, SpecRead, SpecCompletion, SpecCatalog, SpecAuth,            *)
(*   SpecAccounts, SpecRooms                                               *)
(*             every request handler runs to completion as one step        *)
(*             (requests processed one at a time);                         *)
(*   SpecConc  createReservation is split at its awaits, so that the       *)
(*             database operations of several requests interleave;         *)
(*   SpecFail  as SpecConc, and an awaited database call may reject.       *)
(*   SpecSteps one createReservation split at its awaits, with rejecting   *)
(*             database calls, cancellations and the admin's room changes  *)
(*             running between its steps.                                  *)
(*   SpecCancelRace, SpecAdminRace                                         *)
(*             cancelReservation, and the admin's user-management          *)
(*             requests, split at their awaits.                            *)
(***************************************************************************)
EXTENDS Integers, Sequences, FiniteSets, TLC

(***************************************************************************)
(* Bounds of the model                                                     *)
(***************************************************************************)
\* number of reservation documents the collection may hold
MaxReservations == 2
\* number of createReservation requests that may be in flight together
MaxInflight == 2

(***************************************************************************)
(* Units and program constants                                             *)
(***************************************************************************)
MsPerMinute == 1000 * 60
MsPerHour == 1000 * 60 * 60
\* reservationController.js:53  durationMinutes < 30
MinDurationMinutes == 30
\* reservationController.js:61  durationMinutes > 8 * 60
MaxDurationMinutes == 8 * 60
\* room.js:237  hoursUntilStart > 2
CancelLeadHours == 2

(***************************************************************************)
(* Input domains                                                           *)
(***************************************************************************)
\* user accounts (all active); "adm" has role admin
Users == {"u1", "u2", "adm"}
\* "r1" and "r2" are stored rooms, "r9" is a well-formed id of no room
RoomIds == {"r1", "r2"}
RoomInputs == RoomIds \cup {"r9"}
\* the clock readings of the model
NowTimes == {0, MsPerHour - 1, MsPerHour, 3 * MsPerHour}
\* request instants: 30 min and 29 min, 8 h and 8 h 1 min after 03:00, and
\* intervals that touch, overlap and contain one another
StartTimes == {3 * MsPerHour, 3 * MsPerHour + 30 * MsPerMinute}
EndTimes == {3 * MsPerHour, 3 * MsPerHour + 29 * MsPerMinute,
             3 * MsPerHour + 30 * MsPerMinute, 4 * MsPerHour,
             11 * MsPerHour, 11 * MsPerHour + MsPerMinute}
AttendeeInputs == {0, 1, 2, 3}
Capacities == {1, 2}
StatusEnum == {"pending", "confirmed", "cancelled", "completed"}
StatusInputs == StatusEnum \cup {"archived"}
\* excludeReservationId = null
NoId == 0
\* req.body.status as a client may send it; NoStatus: the body has no such key
NoStatus == ""
BodyStatusInputs == {NoStatus, "pending", "cancelled"}

VARIABLES
    now,            \* the clock (new Date(), Joi 'now')
    rooms,          \* Room collection: id -> [capacity, isActive, name, building]
    reservations,   \* Reservation collection: sequence, _id = index
    inflight,       \* createReservation requests suspended at an await
    resp,           \* the response of the last request that completed
    users,          \* User collection: _id -> document
    issued          \* what the server has handed out: the ids for which a JWT
                    \* was signed, and the number of password reset tokens

vars == <<now, rooms, reservations, inflight, resp, users, issued>>

\* req.user.role: auth loads the stored user on every request
role(u) == users[u].role

(***************************************************************************)
(* Responses                                                               *)
(***************************************************************************)
MsgStartInFuture == "Start time must be in the future"
MsgEndAfterStart == "End time must be after start time"
MsgAttendeesMin == "\"attendees\" must be greater than or equal to 1"
MsgStartGreaterNow == "\"startTime\" must be greater than \"now\""
MsgEndGreaterStart == "\"endTime\" must be greater than \"ref:startTime\""
MsgRoomNotFound == "Room not found or not available"
MsgCapacity == "Room capacity exceeded. Maximum capacity: ${room.capacity}"
MsgSlotTaken == "Room is not available for the selected time slot"
MsgTooShort == "Minimum booking duration is 30 minutes"
MsgTooLong == "Maximum booking duration is 8 hours"
MsgCreated == "Reservation created successfully"
MsgResNotFound == "Reservation not found"
MsgNotOwner == "Access denied. You can only cancel your own reservations."
MsgTooLate == "Reservation cannot be cancelled. Must be cancelled at least 2 hours before start time."
MsgCancelled == "Reservation cancelled successfully"
MsgInvalidStatus == "Invalid status"
MsgStatusUpdated == "Reservation status updated successfully"
MsgAdminCancelled == "Reservation cancelled by admin"
MsgForbidden == "Access denied. Insufficient permissions."
MsgRoomMissing == "Room not found"
MsgRoomUpdated == "Room updated successfully"
MsgRoomDeleted == "Room deleted successfully"
MsgInternal == "Internal server error"
MsgStatusNotAllowed == "\"status\" is not allowed"
MsgNotYours == "Access denied. You can only view your own reservations."
MsgQueryStatus == "\"status\" must be one of [pending, confirmed, cancelled, completed]"

\* res.status(status).json({ message, data: { available } })
Response(op, status, message) ==
    [op |-> op, status |-> status, message |-> message, available |-> FALSE]

NoResponse == Response("none", 0, "")

(***************************************************************************)
(* Joi schemas (utils/validations.js).  validate() stops at the first      *)
(* failing key, keys taken in schema order; the result is the message of   *)
(* that key, or "" when the body is valid.  The room id and the purpose    *)
(* of the modelled requests are always well formed.                        *)
(***************************************************************************)
\* variant: a start equal to the current time passes
createReservationValidation_startNotBefore(clock, startTime, endTime, attendees) ==
    IF ~(startTime >= clock) THEN MsgStartInFuture
    ELSE IF ~(endTime > startTime) THEN MsgEndAfterStart
    ELSE IF ~(attendees >= 1) THEN MsgAttendeesMin
    ELSE ""

createReservationValidation(clock, startTime, endTime, attendees) ==
    IF ~(startTime > clock) THEN MsgStartInFuture
    ELSE IF ~(endTime > startTime) THEN MsgEndAfterStart
    ELSE IF ~(attendees >= 1) THEN MsgAttendeesMin
    ELSE ""

checkAvailabilityValidation(clock, startTime, endTime) ==
    IF ~(startTime > clock) THEN MsgStartGreaterNow
    ELSE IF ~(endTime > startTime) THEN MsgEndGreaterStart
    ELSE ""

(***************************************************************************)
(* Reservation model (models/room.js, second half)                         *)
(***************************************************************************)
\* variants of the conflict query with one operator or one clause changed
conflictClauses_noContainment(d, startTime, endTime) ==
    \/ (d.startTime >= startTime /\ d.startTime < endTime)
    \/ (d.endTime > startTime /\ d.endTime <= endTime)

conflictClauses_closedEnd(d, startTime, endTime) ==
    \/ (d.startTime >= startTime /\ d.startTime < endTime)
    \/ (d.endTime >= startTime /\ d.endTime <= endTime)
    \/ (d.startTime <= startTime /\ d.endTime >= endTime)

\* the $or of the conflict query, for one stored document d
conflictClauses(d, startTime, endTime) ==
    \/ (d.startTime >= startTime /\ d.startTime < endTime)
    \/ (d.endTime > startTime /\ d.endTime <= endTime)
    \/ (d.startTime <= startTime /\ d.endTime >= endTime)

\* variant of the conflict query without the status filter
conflictConditions_anyStatus(store, roomId, startTime, endTime, excludeReservationId) ==
    { i \in DOMAIN store :
        /\ store[i].room = roomId
        /\ conflictClauses(store[i], startTime, endTime)
        /\ (excludeReservationId # NoId => i # excludeReservationId) }

\* variant of the conflict query that ignores excludeReservationId
conflictConditions_noExclude(store, roomId, startTime, endTime, excludeReservationId) ==
    { i \in DOMAIN store :
        /\ store[i].room = roomId
        /\ store[i].status \in {"pending", "confirmed"}
        /\ conflictClauses(store[i], startTime, endTime) }

\* the documents matched by conflictConditions
conflictConditions(store, roomId, startTime, endTime, excludeReservationId) ==
    { i \in DOMAIN store :
        /\ store[i].room = roomId
        /\ store[i].status \in {"pending", "confirmed"}
        /\ conflictClauses(store[i], startTime, endTime)
        /\ (excludeReservationId # NoId => i # excludeReservationId) }

\* Reservation.checkAvailability: !findOne(conflictConditions)
Reservation_checkAvailability(store, roomId, startTime, endTime, excludeReservationId) ==
    conflictConditions(store, roomId, startTime, endTime, excludeReservationId) = {}

\* variant: exactly two hours before the start still counts
canBeCancelled_inclusive(d, clock) ==
    /\ d.status = "confirmed"
    /\ d.startTime - clock >= CancelLeadHours * MsPerHour

\* reservation.canBeCancelled(): hoursUntilStart = (startTime - now) / 3600000,
\* compared with 2; the division is exact enough that this is the same as
\* comparing the difference in milliseconds with 2 hours
canBeCancelled(d, clock) ==
    /\ d.status = "confirmed"
    /\ d.startTime - clock > CancelLeadHours * MsPerHour

\* Reservation.create(...): status takes the schema default
newReservation(u, roomId, startTime, endTime, attendees) ==
    [user |-> u, room |-> roomId, startTime |-> startTime, endTime |-> endTime,
     attendees |-> attendees, status |-> "confirmed"]

(***************************************************************************)
(* createReservation, by the stretch of code between two awaits.  Each     *)
(* stage yields the message of the rejection it ends in, or "" to go on.   *)
(***************************************************************************)
\* variant: a full room is already over capacity
roomStage_full(roomsNow, roomId, attendees) ==
    IF roomId \notin DOMAIN roomsNow \/ ~roomsNow[roomId].isActive THEN MsgRoomNotFound
    ELSE IF attendees >= roomsNow[roomId].capacity THEN MsgCapacity
    ELSE ""

\* lines 24-39: result of Room.findById, then the capacity comparison
roomStage(roomsNow, roomId, attendees) ==
    IF roomId \notin DOMAIN roomsNow \/ ~roomsNow[roomId].isActive THEN MsgRoomNotFound
    ELSE IF attendees > roomsNow[roomId].capacity THEN MsgCapacity
    ELSE ""

\* variant: the minimum duration itself is too short
tooShort_inclusive(startTime, endTime) ==
    endTime - startTime <= MinDurationMinutes * MsPerMinute

\* durationMinutes = durationMs / (1000 * 60) compared with 30 and 8 * 60
tooShort(startTime, endTime) ==
    endTime - startTime < MinDurationMinutes * MsPerMinute

tooLong(startTime, endTime) ==
    endTime - startTime > MaxDurationMinutes * MsPerMinute

\* variant: a slot conflict is reported the way a capacity violation is
availabilityStage_conflictAsCapacity(store, roomId, startTime, endTime) ==
    IF ~Reservation_checkAvailability(store, roomId, startTime, endTime, NoId) THEN MsgCapacity
    ELSE IF tooShort(startTime, endTime) THEN MsgTooShort
    ELSE IF tooLong(startTime, endTime) THEN MsgTooLong
    ELSE ""

\* lines 41-66: result of Reservation.checkAvailability, then the duration checks
availabilityStage(store, roomId, startTime, endTime) ==
    IF ~Reservation_checkAvailability(store, roomId, startTime, endTime, NoId) THEN MsgSlotTaken
    ELSE IF tooShort(startTime, endTime) THEN MsgTooShort
    ELSE IF tooLong(startTime, endTime) THEN MsgTooLong
    ELSE ""

\* the status code sent with each rejection of createReservation
createStatus(message) ==
    IF message = MsgRoomNotFound THEN 404
    ELSE IF message = MsgSlotTaken THEN 409
    ELSE 400

\* the first rejection of the whole handler run without interruption
createOutcome(clock, roomsNow, store, roomId, startTime, endTime, attendees) ==
    LET v == createReservationValidation(clock, startTime, endTime, attendees)
        r == roomStage(roomsNow, roomId, attendees)
        a == availabilityStage(store, roomId, startTime, endTime)
    IN  IF v # "" THEN v ELSE IF r # "" THEN r ELSE a

(***************************************************************************)
(* Initial state: two active rooms, no reservation, nothing in flight,      *)
(* three active accounts that have logged in                               *)
(***************************************************************************)
Idle == [pc |-> "idle"]
\* passwordResetToken of a user that has none (undefined)
NoResetToken == 0

Init ==
    /\ now = 0
    /\ rooms = [r \in RoomIds |-> [capacity |-> 2, isActive |-> TRUE,
                                   name |-> IF r = "r1" THEN "A" ELSE "B",
                                   building |-> "HQ"]]
    /\ reservations = <<>>
    /\ inflight = [i \in 1..MaxInflight |-> Idle]
    /\ resp = NoResponse
    /\ users = [u \in Users |-> [email |-> u, password |-> "password123",
                                 role |-> IF u = "adm" THEN "admin" ELSE "user",
                                 isActive |-> TRUE,
                                 passwordResetToken |-> NoResetToken,
                                 passwordResetExpires |-> 0]]
    /\ issued = [jwt |-> {[id |-> u, role |-> IF u = "adm" THEN "admin" ELSE "user"] :
                             u \in Users},
                 resetTokens |-> 0]

(***************************************************************************)
(* Requests processed one at a time                                        *)
(***************************************************************************)
\* POST /api/reservations
createReservation(u, roomId, startTime, endTime, attendees) ==
    LET message == createOutcome(now, rooms, reservations, roomId, startTime, endTime, attendees)
    IN  /\ IF message # ""
           THEN /\ resp' = Response("createReservation", createStatus(message), message)
                /\ UNCHANGED reservations
           ELSE /\ Len(reservations) < MaxReservations
                /\ reservations' = Append(reservations,
                                      newReservation(u, roomId, startTime, endTime, attendees))
                /\ resp' = Response("createReservation", 201, MsgCreated)
        /\ UNCHANGED <<now, rooms, inflight, users, issued>>

\* variant: the schema lets the key through and the body's status is stored
createReservationBody_statusThrough(u, roomId, startTime, endTime, attendees, status) ==
    LET message == createOutcome(now, rooms, reservations, roomId, startTime, endTime, attendees)
    IN  /\ IF message # ""
           THEN /\ resp' = Response("createReservation", createStatus(message), message)
                /\ UNCHANGED reservations
           ELSE /\ Len(reservations) < MaxReservations
                /\ reservations' = Append(reservations,
                      [newReservation(u, roomId, startTime, endTime, attendees) EXCEPT
                          !.status = IF status = NoStatus THEN "confirmed" ELSE status])
                /\ resp' = Response("createReservation", 201, MsgCreated)
        /\ UNCHANGED <<now, rooms, inflight, users, issued>>

\* POST /api/reservations with a body that may carry a status key.  The
\* schema has no such key, so Joi reports it as not allowed once the keys it
\* knows have passed; Reservation.create is given the named fields only.
createReservationBody(u, roomId, startTime, endTime, attendees, status) ==
    IF /\ createReservationValidation(now, startTime, endTime, attendees) = ""
       /\ status # NoStatus
    THEN /\ resp' = Response("createReservation", 400, MsgStatusNotAllowed)
         /\ UNCHANGED <<now, rooms, reservations, inflight, users, issued>>
    ELSE createReservation(u, roomId, startTime, endTime, attendees)

\* cancelReservation with the lead-time guard applied to admins as well
cancelReservation_noAdminExemption(u, id) ==
    /\ IF id \notin DOMAIN reservations
       THEN /\ resp' = Response("cancelReservation", 404, MsgResNotFound)
            /\ UNCHANGED reservations
       ELSE IF role(u) # "admin" /\ reservations[id].user # u
       THEN /\ resp' = Response("cancelReservation", 403, MsgNotOwner)
            /\ UNCHANGED reservations
       ELSE IF ~canBeCancelled(reservations[id], now)
       THEN /\ resp' = Response("cancelReservation", 400, MsgTooLate)
            /\ UNCHANGED reservations
       ELSE /\ reservations' = [reservations EXCEPT ![id].status = "cancelled"]
            /\ resp' = Response("cancelReservation", 200, MsgCancelled)
    /\ UNCHANGED <<now, rooms, inflight, users, issued>>

\* cancelReservation with the lead-time guard placed before the ownership check
cancelReservation_leadTimeFirst(u, id) ==
    /\ IF id \notin DOMAIN reservations
       THEN /\ resp' = Response("cancelReservation", 404, MsgResNotFound)
            /\ UNCHANGED reservations
       ELSE IF role(u) # "admin" /\ ~canBeCancelled(reservations[id], now)
       THEN /\ resp' = Response("cancelReservation", 400, MsgTooLate)
            /\ UNCHANGED reservations
       ELSE IF role(u) # "admin" /\ reservations[id].user # u
       THEN /\ resp' = Response("cancelReservation", 403, MsgNotOwner)
            /\ UNCHANGED reservations
       ELSE /\ reservations' = [reservations EXCEPT ![id].status = "cancelled"]
            /\ resp' = Response("cancelReservation", 200, MsgCancelled)
    /\ UNCHANGED <<now, rooms, inflight, users, issued>>

\* cancelReservation removing the document instead of marking it
cancelReservation_hardDelete(u, id) ==
    /\ IF id \notin DOMAIN reservations
       THEN /\ resp' = Response("cancelReservation", 404, MsgResNotFound)
            /\ UNCHANGED reservations
       ELSE IF role(u) # "admin" /\ reservations[id].user # u
       THEN /\ resp' = Response("cancelReservation", 403, MsgNotOwner)
            /\ UNCHANGED reservations
       ELSE IF role(u) # "admin" /\ ~canBeCancelled(reservations[id], now)
       THEN /\ resp' = Response("cancelReservation", 400, MsgTooLate)
            /\ UNCHANGED reservations
       ELSE /\ reservations' = [j \in 1..(Len(reservations) - 1) |->
                                   IF j < id THEN reservations[j] ELSE reservations[j + 1]]
            /\ resp' = Response("cancelReservation", 200, MsgCancelled)
    /\ UNCHANGED <<now, rooms, inflight, users, issued>>

\* variant: the status is written before the lead-time test rejects
cancelReservation_writesBeforeGuard(u, id) ==
    /\ IF id \notin DOMAIN reservations
       THEN /\ resp' = Response("cancelReservation", 404, MsgResNotFound)
            /\ UNCHANGED reservations
       ELSE IF role(u) # "admin" /\ reservations[id].user # u
       THEN /\ resp' = Response("cancelReservation", 403, MsgNotOwner)
            /\ UNCHANGED reservations
       ELSE /\ reservations' = [reservations EXCEPT ![id].status = "cancelled"]
            /\ IF role(u) # "admin" /\ ~canBeCancelled(reservations[id], now)
               THEN resp' = Response("cancelReservation", 400, MsgTooLate)
               ELSE resp' = Response("cancelReservation", 200, MsgCancelled)
    /\ UNCHANGED <<now, rooms, inflight, users, issued>>

\* PATCH /api/reservations/:id/cancel
cancelReservation(u, id) ==
    /\ IF id \notin DOMAIN reservations
       THEN /\ resp' = Response("cancelReservation", 404, MsgResNotFound)
            /\ UNCHANGED reservations
       ELSE IF role(u) # "admin" /\ reservations[id].user # u
       THEN /\ resp' = Response("cancelReservation", 403, MsgNotOwner)
            /\ UNCHANGED reservations
       ELSE IF role(u) # "admin" /\ ~canBeCancelled(reservations[id], now)
       THEN /\ resp' = Response("cancelReservation", 400, MsgTooLate)
            /\ UNCHANGED reservations
       ELSE /\ reservations' = [reservations EXCEPT ![id].status = "cancelled"]
            /\ resp' = Response("cancelReservation", 200, MsgCancelled)
    /\ UNCHANGED <<now, rooms, inflight, users, issued>>

\* checkAvailability placing a pending hold on a slot it reports available
checkAvailability_holdsSlot(u, roomId, startTime, endTime, excludeReservation) ==
    LET v == checkAvailabilityValidation(now, startTime, endTime)
    IN  /\ IF v # ""
           THEN resp' = Response("checkAvailability", 400, v) /\ UNCHANGED reservations
           ELSE IF roomId \notin DOMAIN rooms \/ ~rooms[roomId].isActive
           THEN resp' = Response("checkAvailability", 404, MsgRoomNotFound)
                /\ UNCHANGED reservations
           ELSE IF ~Reservation_checkAvailability(
                       reservations, roomId, startTime, endTime, excludeReservation)
           THEN resp' = Response("checkAvailability", 200, "") /\ UNCHANGED reservations
           ELSE /\ resp' = [Response("checkAvailability", 200, "") EXCEPT !.available = TRUE]
                /\ Len(reservations) < MaxReservations
                /\ reservations' = Append(reservations,
                      [newReservation(u, roomId, startTime, endTime, 1)
                          EXCEPT !.status = "pending"])
        /\ UNCHANGED <<now, rooms, inflight, users, issued>>

\* POST /api/reservations/check-availability
checkAvailability(u, roomId, startTime, endTime, excludeReservation) ==
    LET v == checkAvailabilityValidation(now, startTime, endTime)
    IN  /\ IF v # ""
           THEN resp' = Response("checkAvailability", 400, v)
           ELSE IF roomId \notin DOMAIN rooms \/ ~rooms[roomId].isActive
           THEN resp' = Response("checkAvailability", 404, MsgRoomNotFound)
           ELSE resp' = [Response("checkAvailability", 200, "") EXCEPT
                            !.available = Reservation_checkAvailability(
                                reservations, roomId, startTime, endTime, excludeReservation)]
        /\ UNCHANGED <<now, rooms, reservations, inflight, users, issued>>

\* updateReservationStatus refusing to leave a cancelled or completed status
updateReservationStatus_terminalGuard(u, id, status) ==
    /\ IF role(u) # "admin"
       THEN /\ resp' = Response("updateReservationStatus", 403, MsgForbidden)
            /\ UNCHANGED reservations
       ELSE IF status \notin StatusEnum
       THEN /\ resp' = Response("updateReservationStatus", 400, MsgInvalidStatus)
            /\ UNCHANGED reservations
       ELSE IF id \notin DOMAIN reservations
       THEN /\ resp' = Response("updateReservationStatus", 404, MsgResNotFound)
            /\ UNCHANGED reservations
       ELSE IF reservations[id].status \in {"cancelled", "completed"}
       THEN /\ resp' = Response("updateReservationStatus", 400, MsgInvalidStatus)
            /\ UNCHANGED reservations
       ELSE /\ reservations' = [reservations EXCEPT ![id].status = status]
            /\ resp' = Response("updateReservationStatus", 200, MsgStatusUpdated)
    /\ UNCHANGED <<now, rooms, inflight, users, issued>>

\* updateReservationStatus without the test of lines 420-425
updateReservationStatus_noEnumCheck(u, id, status) ==
    /\ IF role(u) # "admin"
       THEN /\ resp' = Response("updateReservationStatus", 403, MsgForbidden)
            /\ UNCHANGED reservations
       ELSE IF id \notin DOMAIN reservations
       THEN /\ resp' = Response("updateReservationStatus", 404, MsgResNotFound)
            /\ UNCHANGED reservations
       ELSE /\ reservations' = [reservations EXCEPT ![id].status = status]
            /\ resp' = Response("updateReservationStatus", 200, MsgStatusUpdated)
    /\ UNCHANGED <<now, rooms, inflight, users, issued>>

\* updateReservationStatus also writing the requester as the reservation's user
updateReservationStatus_takesOwnership(u, id, status) ==
    /\ IF role(u) # "admin"
       THEN /\ resp' = Response("updateReservationStatus", 403, MsgForbidden)
            /\ UNCHANGED reservations
       ELSE IF status \notin StatusEnum
       THEN /\ resp' = Response("updateReservationStatus", 400, MsgInvalidStatus)
            /\ UNCHANGED reservations
       ELSE IF id \notin DOMAIN reservations
       THEN /\ resp' = Response("updateReservationStatus", 404, MsgResNotFound)
            /\ UNCHANGED reservations
       ELSE /\ reservations' = [reservations EXCEPT ![id].status = status, ![id].user = u]
            /\ resp' = Response("updateReservationStatus", 200, MsgStatusUpdated)
    /\ UNCHANGED <<now, rooms, inflight, users, issued>>

\* PATCH /api/reservations/admin/:id/status, behind authorize('admin')
updateReservationStatus(u, id, status) ==
    /\ IF role(u) # "admin"
       THEN /\ resp' = Response("updateReservationStatus", 403, MsgForbidden)
            /\ UNCHANGED reservations
       ELSE IF status \notin StatusEnum
       THEN /\ resp' = Response("updateReservationStatus", 400, MsgInvalidStatus)
            /\ UNCHANGED reservations
       ELSE IF id \notin DOMAIN reservations
       THEN /\ resp' = Response("updateReservationStatus", 404, MsgResNotFound)
            /\ UNCHANGED reservations
       ELSE /\ reservations' = [reservations EXCEPT ![id].status = status]
            /\ resp' = Response("updateReservationStatus", 200, MsgStatusUpdated)
    /\ UNCHANGED <<now, rooms, inflight, users, issued>>

\* adminCancelReservation refusing a reservation that is already cancelled
adminCancelReservation_rejectCancelled(u, id) ==
    /\ IF role(u) # "admin"
       THEN /\ resp' = Response("adminCancelReservation", 403, MsgForbidden)
            /\ UNCHANGED reservations
       ELSE IF id \notin DOMAIN reservations
       THEN /\ resp' = Response("adminCancelReservation", 404, MsgResNotFound)
            /\ UNCHANGED reservations
       ELSE IF reservations[id].status = "cancelled"
       THEN /\ resp' = Response("adminCancelReservation", 400, MsgTooLate)
            /\ UNCHANGED reservations
       ELSE /\ reservations' = [reservations EXCEPT ![id].status = "cancelled"]
            /\ resp' = Response("adminCancelReservation", 200, MsgAdminCancelled)
    /\ UNCHANGED <<now, rooms, inflight, users, issued>>

\* adminCancelReservation mounted without authorize('admin')
adminCancelReservation_noAuthorize(u, id) ==
    /\ IF id \notin DOMAIN reservations
       THEN /\ resp' = Response("adminCancelReservation", 404, MsgResNotFound)
            /\ UNCHANGED reservations
       ELSE /\ reservations' = [reservations EXCEPT ![id].status = "cancelled"]
            /\ resp' = Response("adminCancelReservation", 200, MsgAdminCancelled)
    /\ UNCHANGED <<now, rooms, inflight, users, issued>>

\* PATCH /api/reservations/admin/:id/cancel, behind authorize('admin')
adminCancelReservation(u, id) ==
    /\ IF role(u) # "admin"
       THEN /\ resp' = Response("adminCancelReservation", 403, MsgForbidden)
            /\ UNCHANGED reservations
       ELSE IF id \notin DOMAIN reservations
       THEN /\ resp' = Response("adminCancelReservation", 404, MsgResNotFound)
            /\ UNCHANGED reservations
       ELSE /\ reservations' = [reservations EXCEPT ![id].status = "cancelled"]
            /\ resp' = Response("adminCancelReservation", 200, MsgAdminCancelled)
    /\ UNCHANGED <<now, rooms, inflight, users, issued>>

(***************************************************************************)
(* Requests that read reservations.  Their responses carry data: the       *)
(* documents returned, each with its id.                                   *)
(***************************************************************************)
ReadResponse(op, status, message, data) ==
    [op |-> op, status |-> status, message |-> message, available |-> FALSE,
     data |-> data]

document(store, id) == [id |-> id, reservation |-> store[id]]

\* .sort({ startTime: 1 }) over the documents whose ids are in S; documents
\* with the same startTime come in the order of their ids
RECURSIVE sortByStartTime(_, _)
sortByStartTime(store, S) ==
    IF S = {} THEN <<>>
    ELSE LET first == CHOOSE i \in S : \A j \in S :
                         \/ store[i].startTime < store[j].startTime
                         \/ store[i].startTime = store[j].startTime /\ i <= j
         IN  <<document(store, first)>> \o sortByStartTime(store, S \ {first})

\* variant: the owner test of lines 181-186 is missing
getReservationById_noOwnerCheck(u, id) ==
    /\ IF id \notin DOMAIN reservations
       THEN resp' = ReadResponse("getReservationById", 404, MsgResNotFound, <<>>)
       ELSE resp' = ReadResponse("getReservationById", 200, "", <<document(reservations, id)>>)
    /\ UNCHANGED <<now, rooms, reservations, inflight, users, issued>>

\* GET /api/reservations/:id
getReservationById(u, id) ==
    /\ IF id \notin DOMAIN reservations
       THEN resp' = ReadResponse("getReservationById", 404, MsgResNotFound, <<>>)
       ELSE IF role(u) # "admin" /\ reservations[id].user # u
       THEN resp' = ReadResponse("getReservationById", 403, MsgNotYours, <<>>)
       ELSE resp' = ReadResponse("getReservationById", 200, "", <<document(reservations, id)>>)
    /\ UNCHANGED <<now, rooms, reservations, inflight, users, issued>>

\* GET /api/reservations/my-reservations?status=..., with the default page,
\* limit and sort (page 1, limit 10, startTime ascending)
getUserReservations(u, status) ==
    /\ IF status \notin StatusEnum \cup {NoStatus}
       THEN resp' = ReadResponse("getUserReservations", 400, MsgQueryStatus, <<>>)
       ELSE LET filter == {i \in DOMAIN reservations :
                             /\ reservations[i].user = u
                             /\ status # NoStatus => reservations[i].status = status}
            IN  resp' = ReadResponse("getUserReservations", 200, "",
                                     sortByStartTime(reservations, filter))
    /\ UNCHANGED <<now, rooms, reservations, inflight, users, issued>>

\* PATCH /api/rooms/:id, behind authorize('admin'); the body sets capacity and isActive
updateRoom(u, roomId, capacity, isActive) ==
    /\ IF role(u) # "admin"
       THEN /\ resp' = Response("updateRoom", 403, MsgForbidden)
            /\ UNCHANGED rooms
       ELSE IF roomId \notin DOMAIN rooms
       THEN /\ resp' = Response("updateRoom", 404, MsgRoomMissing)
            /\ UNCHANGED rooms
       ELSE /\ rooms' = [rooms EXCEPT ![roomId].capacity = capacity,
                                      ![roomId].isActive = isActive]
            /\ resp' = Response("updateRoom", 200, MsgRoomUpdated)
    /\ UNCHANGED <<now, reservations, inflight, users, issued>>

\* POST /api/rooms, behind authorize('admin'), with a well-formed body
createRoom(u, name, building) ==
    LET unused == {"r3"} \ DOMAIN rooms    \* the _id of the new document
        id == CHOOSE r \in unused : TRUE
    IN  /\ unused # {}
        /\ IF role(u) # "admin"
           THEN resp' = Response("createRoom", 403, MsgForbidden) /\ UNCHANGED rooms
           ELSE IF \E r \in DOMAIN rooms : rooms[r].name = name /\ rooms[r].building = building
           THEN /\ resp' = Response("createRoom", 409,
                                    "Room with this name already exists in the building")
                /\ UNCHANGED rooms
           ELSE /\ rooms' = [r \in DOMAIN rooms \cup {id} |->
                               IF r = id
                               THEN [capacity |-> 2, isActive |-> TRUE,
                                     name |-> name, building |-> building]
                               ELSE rooms[r]]
                /\ resp' = Response("createRoom", 201, "Room created successfully")
        /\ UNCHANGED <<now, reservations, inflight, users, issued>>

\* PATCH /api/rooms/:id with a body that has the key name, the key
\* location.building, or both ("" for a key the body does not have)
updateRoomBody(u, roomId, name, building) ==
    /\ IF role(u) # "admin"
       THEN resp' = Response("updateRoom", 403, MsgForbidden) /\ UNCHANGED rooms
       ELSE IF roomId \notin DOMAIN rooms
       THEN resp' = Response("updateRoom", 404, MsgRoomMissing) /\ UNCHANGED rooms
       ELSE IF /\ name # "" /\ name # rooms[roomId].name
               /\ \E r \in DOMAIN rooms \ {roomId} :
                    /\ rooms[r].name = name
                    /\ rooms[r].building = IF building # "" THEN building
                                           ELSE rooms[roomId].building
       THEN /\ resp' = Response("updateRoom", 409,
                                "Room with this name already exists in the building")
            /\ UNCHANGED rooms
       ELSE /\ rooms' = [rooms EXCEPT
                           ![roomId].name = IF name # "" THEN name ELSE @,
                           ![roomId].building = IF building # "" THEN building ELSE @]
            /\ resp' = Response("updateRoom", 200, MsgRoomUpdated)
    /\ UNCHANGED <<now, reservations, inflight, users, issued>>

\* variant: deactivating a room cancels its reservations
deleteRoom_cascade(u, roomId) ==
    /\ IF role(u) # "admin"
       THEN /\ resp' = Response("deleteRoom", 403, MsgForbidden)
            /\ UNCHANGED <<rooms, reservations>>
       ELSE IF roomId \notin DOMAIN rooms
       THEN /\ resp' = Response("deleteRoom", 404, MsgRoomMissing)
            /\ UNCHANGED <<rooms, reservations>>
       ELSE /\ rooms' = [rooms EXCEPT ![roomId].isActive = FALSE]
            /\ reservations' = [i \in DOMAIN reservations |->
                                  IF reservations[i].room = roomId
                                  THEN [reservations[i] EXCEPT !.status = "cancelled"]
                                  ELSE reservations[i]]
            /\ resp' = Response("deleteRoom", 200, MsgRoomDeleted)
    /\ UNCHANGED <<now, inflight, users, issued>>

\* DELETE /api/rooms/:id, behind authorize('admin'): soft delete
deleteRoom(u, roomId) ==
    /\ IF role(u) # "admin"
       THEN /\ resp' = Response("deleteRoom", 403, MsgForbidden)
            /\ UNCHANGED rooms
       ELSE IF roomId \notin DOMAIN rooms
       THEN /\ resp' = Response("deleteRoom", 404, MsgRoomMissing)
            /\ UNCHANGED rooms
       ELSE /\ rooms' = [rooms EXCEPT ![roomId].isActive = FALSE]
            /\ resp' = Response("deleteRoom", 200, MsgRoomDeleted)
    /\ UNCHANGED <<now, reservations, inflight, users, issued>>

\* time passes
Tick ==
    /\ \E t \in NowTimes : t > now /\ now' = t
    /\ UNCHANGED <<rooms, reservations, inflight, resp, users, issued>>

(***************************************************************************)
(* createReservation with its awaits as interleaving points.  A request    *)
(* in flight keeps the validated body and the await at which it is         *)
(* suspended; the database operation it waits for and the code up to the   *)
(* next await run as one step.                                             *)
(***************************************************************************)
respond(i, status, message) ==
    /\ resp' = Response("createReservation", status, message)
    /\ inflight' = [inflight EXCEPT ![i] = Idle]

\* lines 13-25: validate the body, then await Room.findById
createValidate(i, u, roomId, startTime, endTime, attendees) ==
    LET v == createReservationValidation(now, startTime, endTime, attendees)
    IN  /\ inflight[i].pc = "idle"
        /\ IF v # ""
           THEN respond(i, 400, v)
           ELSE /\ inflight' = [inflight EXCEPT ![i] =
                      [pc |-> "Room.findById", user |-> u, room |-> roomId,
                       startTime |-> startTime, endTime |-> endTime,
                       attendees |-> attendees]]
                /\ UNCHANGED resp
        /\ UNCHANGED <<now, rooms, reservations, users, issued>>

\* lines 25-42: the room is read; then await Reservation.checkAvailability
createFindRoom(i) ==
    /\ inflight[i].pc = "Room.findById"
    /\ LET m == roomStage(rooms, inflight[i].room, inflight[i].attendees)
       IN  IF m # ""
           THEN respond(i, createStatus(m), m)
           ELSE /\ inflight' = [inflight EXCEPT ![i].pc = "Reservation.checkAvailability"]
                /\ UNCHANGED resp
    /\ UNCHANGED <<now, rooms, reservations, users, issued>>

\* lines 42-69: the conflict query is run; then await Reservation.create
createCheckAvailability(i) ==
    /\ inflight[i].pc = "Reservation.checkAvailability"
    /\ LET m == availabilityStage(reservations, inflight[i].room,
                                  inflight[i].startTime, inflight[i].endTime)
       IN  IF m # ""
           THEN respond(i, createStatus(m), m)
           ELSE /\ inflight' = [inflight EXCEPT ![i].pc = "Reservation.create"]
                /\ UNCHANGED resp
    /\ UNCHANGED <<now, rooms, reservations, users, issued>>

\* lines 69-89: the document is inserted and the 201 sent
createInsert(i) ==
    /\ inflight[i].pc = "Reservation.create"
    /\ Len(reservations) < MaxReservations
    /\ reservations' = Append(reservations,
                          newReservation(inflight[i].user, inflight[i].room,
                                         inflight[i].startTime, inflight[i].endTime,
                                         inflight[i].attendees))
    /\ respond(i, 201, MsgCreated)
    /\ UNCHANGED <<now, rooms, users, issued>>

\* variant: a failed conflict query is taken for "no conflict"
createStorageFailure_swallowed(i) ==
    /\ inflight[i].pc \in {"Room.findById", "Reservation.checkAvailability"}
    /\ IF inflight[i].pc = "Reservation.checkAvailability"
       THEN /\ inflight' = [inflight EXCEPT ![i].pc = "Reservation.create"]
            /\ UNCHANGED resp
       ELSE respond(i, 500, MsgInternal)
    /\ UNCHANGED <<now, rooms, reservations, users, issued>>

\* lines 24, 42, 90-96: the awaited read (Room.findById or the findOne of
\* Reservation.checkAvailability) rejects; the catch block answers 500
createStorageFailure(i) ==
    /\ inflight[i].pc \in {"Room.findById", "Reservation.checkAvailability"}
    /\ respond(i, 500, MsgInternal)
    /\ UNCHANGED <<now, rooms, reservations, users, issued>>

\* lines 69-81, 90-96: Reservation.create rejects, or one of the populate
\* calls after it does; the catch block answers 500.  The document is stored
\* when the write had been applied before the rejection, and not otherwise.
createInsertFailure(i, applied) ==
    /\ inflight[i].pc = "Reservation.create"
    /\ IF applied
       THEN /\ Len(reservations) < MaxReservations
            /\ reservations' = Append(reservations,
                                  newReservation(inflight[i].user, inflight[i].room,
                                                 inflight[i].startTime, inflight[i].endTime,
                                                 inflight[i].attendees))
       ELSE UNCHANGED reservations
    /\ respond(i, 500, MsgInternal)
    /\ UNCHANGED <<now, rooms, users, issued>>

(***************************************************************************)
(* cancelReservation split at its awaits: the document is read and tested  *)
(* (await Reservation.findById), and the status is written later (await    *)
(* reservation.save(), which sends { $set: { status } } for the _id).      *)
(***************************************************************************)
respondCancel(i, status, message) ==
    /\ resp' = Response("cancelReservation", status, message)
    /\ inflight' = [inflight EXCEPT ![i] = Idle]

\* lines 207-234: the document is read; the owner and lead-time tests run on
\* the copy that was read; then await reservation.save()
cancelFind(i, u, id) ==
    /\ inflight[i].pc = "idle"
    /\ IF id \notin DOMAIN reservations
       THEN respondCancel(i, 404, MsgResNotFound)
       ELSE IF role(u) # "admin" /\ reservations[id].user # u
       THEN respondCancel(i, 403, MsgNotOwner)
       ELSE IF role(u) # "admin" /\ ~canBeCancelled(reservations[id], now)
       THEN respondCancel(i, 400, MsgTooLate)
       ELSE /\ inflight' = [inflight EXCEPT ![i] =
                  [pc |-> "reservation.save", user |-> u, reservation |-> id]]
            /\ UNCHANGED resp
    /\ UNCHANGED <<now, rooms, reservations, users, issued>>

\* lines 235-243: the write of the status is applied and the 200 sent
cancelSave(i) ==
    /\ inflight[i].pc = "reservation.save"
    /\ reservations' = [reservations EXCEPT ![inflight[i].reservation].status = "cancelled"]
    /\ respondCancel(i, 200, MsgCancelled)
    /\ UNCHANGED <<now, rooms, users, issued>>

(***************************************************************************)
(* Accounts (middlewares/authMiddleware.js, controllers/userController.js) *)
(* A bearer token is the payload that was signed, { id, role }; NoJwt is   *)
(* a request without Authorization header.  Tokens do not expire within    *)
(* the behaviours considered.                                              *)
(***************************************************************************)
NoJwt == [id |-> "", role |-> ""]
Roles == {"user", "admin"}

\* variant: the isActive test of the middleware is missing
auth_noActiveCheck(t) ==
    IF t = NoJwt THEN "Access denied. No token provided."
    ELSE IF t \notin issued.jwt THEN "Invalid token."
    ELSE IF t.id \notin DOMAIN users THEN "Invalid token. User not found."
    ELSE ""

\* auth: the message of the 401 it sends, or "" when it calls next()
auth(t) ==
    IF t = NoJwt THEN "Access denied. No token provided."
    ELSE IF t \notin issued.jwt THEN "Invalid token."
    ELSE IF t.id \notin DOMAIN users THEN "Invalid token. User not found."
    ELSE IF ~users[t.id].isActive THEN "Account is deactivated."
    ELSE ""

\* a route mounted behind router.use(auth): the handler runs with req.user
\* set to the stored user of the token's id
authenticated(t, handler) ==
    IF auth(t) # ""
    THEN /\ resp' = Response("auth", 401, auth(t))
         /\ UNCHANGED <<now, rooms, reservations, inflight, users, issued>>
    ELSE handler

\* POST /api/users/login, with a well-formed body
login(email, password) ==
    LET found == {u \in DOMAIN users : users[u].email = email}
    IN  /\ IF found = {} \/ (\E u \in found : users[u].password # password)
           THEN resp' = Response("login", 401, "Invalid email or password") /\ UNCHANGED issued
           ELSE IF \E u \in found : ~users[u].isActive
           THEN resp' = Response("login", 401, "Account is deactivated") /\ UNCHANGED issued
           ELSE /\ resp' = Response("login", 200, "Login successful")
                /\ issued' = [issued EXCEPT !.jwt =
                                 @ \cup {[id |-> u, role |-> users[u].role] : u \in found}]
        /\ UNCHANGED <<now, rooms, reservations, inflight, users>>

\* PATCH /api/users/admin/users/:id/role, behind authorize('admin')
updateUserRole(u, id, newRole) ==
    /\ IF role(u) # "admin"
       THEN resp' = Response("updateUserRole", 403, MsgForbidden) /\ UNCHANGED users
       ELSE IF newRole \notin Roles
       THEN resp' = Response("updateUserRole", 400, "Invalid role. Must be \"user\" or \"admin\"") /\ UNCHANGED users
       ELSE IF id = u
       THEN resp' = Response("updateUserRole", 400, "Cannot modify your own role") /\ UNCHANGED users
       ELSE IF id \notin DOMAIN users
       THEN resp' = Response("updateUserRole", 404, "User not found") /\ UNCHANGED users
       ELSE /\ users' = [users EXCEPT ![id].role = newRole]
            /\ resp' = Response("updateUserRole", 200, "User role updated successfully")
    /\ UNCHANGED <<now, rooms, reservations, inflight, issued>>

\* DELETE /api/users/admin/users/:id, behind authorize('admin')
deleteUser(u, id) ==
    /\ IF role(u) # "admin"
       THEN resp' = Response("deleteUser", 403, MsgForbidden) /\ UNCHANGED users
       ELSE IF id = u
       THEN resp' = Response("deleteUser", 400, "Cannot delete your own account") /\ UNCHANGED users
       ELSE IF id \notin DOMAIN users
       THEN resp' = Response("deleteUser", 404, "User not found") /\ UNCHANGED users
       ELSE /\ users' = [v \in DOMAIN users \ {id} |-> users[v]]
            /\ resp' = Response("deleteUser", 200, "User deleted successfully")
    /\ UNCHANGED <<now, rooms, reservations, inflight, issued>>

\* variant: the self test of toggleUserStatus is missing
toggleUserStatus_noSelfCheck(u, id) ==
    /\ IF role(u) # "admin"
       THEN resp' = Response("toggleUserStatus", 403, MsgForbidden) /\ UNCHANGED users
       ELSE IF id \notin DOMAIN users
       THEN resp' = Response("toggleUserStatus", 404, "User not found") /\ UNCHANGED users
       ELSE /\ users' = [users EXCEPT ![id].isActive = ~users[id].isActive]
            /\ resp' = Response("toggleUserStatus", 200,
                                "User ${user.isActive ? 'activated' : 'deactivated'} successfully")
    /\ UNCHANGED <<now, rooms, reservations, inflight, issued>>

\* PATCH /api/users/admin/users/:id/status, behind authorize('admin')
toggleUserStatus(u, id) ==
    /\ IF role(u) # "admin"
       THEN resp' = Response("toggleUserStatus", 403, MsgForbidden) /\ UNCHANGED users
       ELSE IF id = u
       THEN resp' = Response("toggleUserStatus", 400, "Cannot modify your own account status") /\ UNCHANGED users
       ELSE IF id \notin DOMAIN users
       THEN resp' = Response("toggleUserStatus", 404, "User not found") /\ UNCHANGED users
       ELSE /\ users' = [users EXCEPT ![id].isActive = ~users[id].isActive]
            /\ resp' = Response("toggleUserStatus", 200, "User ${user.isActive ? 'activated' : 'deactivated'} successfully")
    /\ UNCHANGED <<now, rooms, reservations, inflight, issued>>

(***************************************************************************)
(* The admin user-management requests split at their awaits.  A request's  *)
(* first step is the middleware and the handler's tests before its first   *)
(* database call; each database call is a later step.                      *)
(***************************************************************************)
respondAdmin(i, op, status, message) ==
    /\ resp' = Response(op, status, message)
    /\ inflight' = [inflight EXCEPT ![i] = Idle]

\* auth, authorize('admin') and the tests on the request (role value, own
\* id); then the handler awaits its first database call
adminBegin(i, t, op, id, newRole) ==
    /\ inflight[i].pc = "idle"
    /\ IF auth(t) # "" THEN respondAdmin(i, "auth", 401, auth(t))
       ELSE IF role(t.id) # "admin" THEN respondAdmin(i, op, 403, MsgForbidden)
       ELSE IF op = "updateUserRole" /\ newRole \notin Roles
       THEN respondAdmin(i, op, 400, "Invalid role. Must be \"user\" or \"admin\"")
       ELSE IF id = t.id
       THEN respondAdmin(i, op, 400,
                CASE op = "updateUserRole" -> "Cannot modify your own role"
                  [] op = "deleteUser" -> "Cannot delete your own account"
                  [] op = "toggleUserStatus" -> "Cannot modify your own account status")
       ELSE /\ inflight' = [inflight EXCEPT ![i] =
                  [pc |-> CASE op = "updateUserRole" -> "User.findByIdAndUpdate"
                            [] op = "deleteUser" -> "User.findByIdAndDelete"
                            [] op = "toggleUserStatus" -> "User.findById",
                   op |-> op, target |-> id, role |-> newRole, isActive |-> FALSE]]
            /\ UNCHANGED resp
    /\ UNCHANGED <<now, rooms, reservations, users, issued>>

\* the awaited database call of a request in flight is applied
adminApply(i) ==
    /\ inflight[i].pc \in {"User.findByIdAndUpdate", "User.findByIdAndDelete",
                           "User.findById", "user.save"}
    /\ LET r == inflight[i]
       IN  IF r.target \notin DOMAIN users
           THEN /\ IF r.pc = "user.save"
                   THEN respondAdmin(i, r.op, 500, MsgInternal)
                   ELSE respondAdmin(i, r.op, 404, "User not found")
                /\ UNCHANGED users
           ELSE CASE r.pc = "User.findByIdAndUpdate" ->
                       /\ users' = [users EXCEPT ![r.target].role = r.role]
                       /\ respondAdmin(i, r.op, 200, "User role updated successfully")
                  [] r.pc = "User.findByIdAndDelete" ->
                       /\ users' = [v \in DOMAIN users \ {r.target} |-> users[v]]
                       /\ respondAdmin(i, r.op, 200, "User deleted successfully")
                  [] r.pc = "User.findById" ->
                       /\ inflight' = [inflight EXCEPT ![i].pc = "user.save",
                                                       ![i].isActive = ~users[r.target].isActive]
                       /\ UNCHANGED <<resp, users>>
                  [] r.pc = "user.save" ->
                       /\ users' = [users EXCEPT ![r.target].isActive = r.isActive]
                       /\ respondAdmin(i, r.op, 200,
                              "User ${user.isActive ? 'activated' : 'deactivated'} successfully")
    /\ UNCHANGED <<now, rooms, reservations, issued>>

(***************************************************************************)
(* Registration, profile and password requests (userController.js).       *)
(* Bodies are well formed except where a key is named as an input: the     *)
(* role key of register and updateProfile is "" when the body has none.    *)
(* A password is stored and compared as the string itself (hashing is      *)
(* taken as injective); a reset token is the number of the forgotPassword  *)
(* request that issued it, so no two requests issue the same token.        *)
(***************************************************************************)
\* number of password reset tokens the server may issue
MaxResetTokens == 2
\* userController.js:241  Date.now() + 10 * 60 * 1000
ResetTokenLifetime == 10 * 60 * 1000

\* POST /api/users/register
register(email, password, roleKey) ==
    LET unused == {"u3"} \ {t.id : t \in issued.jwt}    \* the _id of the new document
        id == CHOOSE v \in unused : TRUE
    IN  /\ unused # {}
        /\ IF roleKey \notin Roles \cup {""}
           THEN /\ resp' = Response("register", 400, "\"role\" must be one of [user, admin]")
                /\ UNCHANGED <<users, issued>>
           ELSE IF \E u \in DOMAIN users : users[u].email = email
           THEN /\ resp' = Response("register", 409, "User already exists with this email")
                /\ UNCHANGED <<users, issued>>
           ELSE LET r == IF roleKey = "" THEN "user" ELSE roleKey
                IN  /\ users' = [v \in DOMAIN users \cup {id} |->
                                   IF v = id
                                   THEN [email |-> email, password |-> password, role |-> r,
                                         isActive |-> TRUE,
                                         passwordResetToken |-> NoResetToken,
                                         passwordResetExpires |-> 0]
                                   ELSE users[v]]
                    /\ issued' = [issued EXCEPT !.jwt = @ \cup {[id |-> id, role |-> r]}]
                    /\ resp' = Response("register", 201, "User registered successfully")
        /\ UNCHANGED <<now, rooms, reservations, inflight>>

\* PATCH /api/users/profile, behind auth
updateProfile(u, email, roleKey) ==
    /\ IF roleKey # ""
       THEN resp' = Response("updateProfile", 400, "\"role\" is not allowed") /\ UNCHANGED users
       ELSE IF email # users[u].email /\ \E v \in DOMAIN users : users[v].email = email
       THEN resp' = Response("updateProfile", 409, "Email already exists") /\ UNCHANGED users
       ELSE /\ users' = [users EXCEPT ![u].email = email]
            /\ resp' = Response("updateProfile", 200, "Profile updated successfully")
    /\ UNCHANGED <<now, rooms, reservations, inflight, issued>>

\* PATCH /api/users/change-password, behind auth
changePassword(u, currentPassword, newPassword) ==
    /\ IF users[u].password # currentPassword
       THEN /\ resp' = Response("changePassword", 401, "Current password is incorrect")
            /\ UNCHANGED users
       ELSE /\ users' = [users EXCEPT ![u].password = newPassword]
            /\ resp' = Response("changePassword", 200, "Password changed successfully")
    /\ UNCHANGED <<now, rooms, reservations, inflight, issued>>

\* the JSON that forgotPassword sends when the User collection is store and
\* count tokens have been issued
forgotPasswordResponse(store, count, email) ==
    IF \A u \in DOMAIN store : store[u].email # email
    THEN Response("forgotPassword", 200, "If the email exists, a reset token will be sent")
    ELSE ReadResponse("forgotPassword", 200,
                      "If the email exists, a reset token will be sent", <<count + 1>>)

\* POST /api/users/forgot-password
forgotPassword(email) ==
    LET found == {u \in DOMAIN users : users[u].email = email}
    IN  /\ issued.resetTokens < MaxResetTokens
        /\ resp' = forgotPasswordResponse(users, issued.resetTokens, email)
        /\ IF found = {}
           THEN UNCHANGED <<users, issued>>
           ELSE /\ users' = [u \in DOMAIN users |->
                               IF u \in found
                               THEN [users[u] EXCEPT
                                       !.passwordResetToken = issued.resetTokens + 1,
                                       !.passwordResetExpires = now + ResetTokenLifetime]
                               ELSE users[u]]
                /\ issued' = [issued EXCEPT !.resetTokens = @ + 1]
        /\ UNCHANGED <<now, rooms, reservations, inflight>>

\* variant: a successful reset leaves the token on the account
resetPassword_keepsToken(token, password) ==
    LET found == {u \in DOMAIN users : /\ users[u].passwordResetToken = token
                                       /\ users[u].passwordResetExpires > now}
    IN  /\ IF found = {}
           THEN /\ resp' = Response("resetPassword", 400, "Invalid or expired reset token")
                /\ UNCHANGED users
           ELSE /\ users' = [u \in DOMAIN users |->
                               IF u \in found
                               THEN [users[u] EXCEPT !.password = password]
                               ELSE users[u]]
                /\ resp' = Response("resetPassword", 200, "Password reset successfully")
        /\ UNCHANGED <<now, rooms, reservations, inflight, issued>>

\* POST /api/users/reset-password
resetPassword(token, password) ==
    LET found == {u \in DOMAIN users : /\ users[u].passwordResetToken = token
                                       /\ users[u].passwordResetExpires > now}
    IN  /\ IF found = {}
           THEN /\ resp' = Response("resetPassword", 400, "Invalid or expired reset token")
                /\ UNCHANGED users
           ELSE /\ users' = [u \in DOMAIN users |->
                               IF u \in found
                               THEN [users[u] EXCEPT !.password = password,
                                                     !.passwordResetToken = NoResetToken,
                                                     !.passwordResetExpires = 0]
                               ELSE users[u]]
                /\ resp' = Response("resetPassword", 200, "Password reset successfully")
        /\ UNCHANGED <<now, rooms, reservations, inflight, issued>>

(***************************************************************************)
(* Specifications.  Each draws its requests from the part of the input     *)
(* domains that its properties are about.                                  *)
(***************************************************************************)
\* ids of the stored reservations and one id of no reservation
ReservationIds == 1..(MaxReservations + 1)

\* Spec: which slots are held.  One user and the admin, both rooms, every
\* request interval, the clock standing at 0.
SlotCreate ==
    \E r \in RoomIds, s \in StartTimes, e \in EndTimes : createReservation("u1", r, s, e, 1)
SlotCancel == \E u \in {"u1", "adm"}, id \in ReservationIds : cancelReservation(u, id)
SlotCheckAvailability ==
    \E r \in RoomIds, s \in StartTimes, e \in EndTimes, x \in 0..MaxReservations :
        checkAvailability("u1", r, s, e, x)
SlotUpdateStatus ==
    \E id \in ReservationIds, st \in StatusEnum : updateReservationStatus("adm", id, st)
SlotAdminCancel == \E id \in ReservationIds : adminCancelReservation("adm", id)

Next ==
    \/ SlotCreate
    \/ SlotCancel
    \/ SlotCheckAvailability
    \/ SlotUpdateStatus
    \/ SlotAdminCancel

Spec == Init /\ [][Next]_vars

\* SpecPolicy: the admission rules.  One user, room "r1" and the missing
\* room, every interval and attendee count, the room being updated and the
\* clock advancing.
PolicyCreate ==
    \E r \in {"r1", "r9"}, s \in StartTimes, e \in EndTimes, a \in AttendeeInputs :
        createReservation("u1", r, s, e, a)
PolicyUpdateRoom == \E c \in Capacities, act \in BOOLEAN : updateRoom("adm", "r1", c, act)
PolicyDeleteRoom == deleteRoom("adm", "r1")

NextPolicy ==
    \/ PolicyCreate
    \/ PolicyUpdateRoom
    \/ PolicyDeleteRoom
    \/ Tick

SpecPolicy == Init /\ [][NextPolicy]_vars

\* SpecLifecycle: who may change a status and when.  Every user, one-hour
\* and half-hour reservations ending at 04:00, the clock advancing.
LifeCreate ==
    \E u \in {"u1", "u2"}, r \in RoomIds, s \in StartTimes :
        createReservation(u, r, s, 4 * MsPerHour, 1)
LifeCancel == \E u \in Users, id \in ReservationIds : cancelReservation(u, id)
LifeUpdateStatus ==
    \E u \in Users, id \in ReservationIds, st \in StatusInputs :
        updateReservationStatus(u, id, st)
LifeAdminCancel == \E u \in Users, id \in ReservationIds : adminCancelReservation(u, id)

NextLifecycle ==
    \/ LifeCreate
    \/ LifeCancel
    \/ LifeUpdateStatus
    \/ LifeAdminCancel
    \/ Tick

SpecLifecycle == Init /\ [][NextLifecycle]_vars

\* SpecConc: createReservation requests for room "r1" running concurrently.
ConcValidate ==
    \E i \in DOMAIN inflight, s \in StartTimes, e \in EndTimes :
        createValidate(i, "u1", "r1", s, e, 1)
ConcFindRoom == \E i \in DOMAIN inflight : createFindRoom(i)
ConcCheckAvailability == \E i \in DOMAIN inflight : createCheckAvailability(i)
ConcInsert == \E i \in DOMAIN inflight : createInsert(i)

NextConc ==
    \/ ConcValidate
    \/ ConcFindRoom
    \/ ConcCheckAvailability
    \/ ConcInsert

SpecConc == Init /\ [][NextConc]_vars

\* SpecRecancel: the admin route cancelling what is already cancelled.  The
\* first cancel comes from the owner, from the admin through the user route
\* or from a status update; the admin route is only asked for reservations
\* whose status is cancelled.
RecancelCreate ==
    \E r \in RoomIds, s \in StartTimes : createReservation("u1", r, s, 4 * MsPerHour, 1)
RecancelFirstCancel ==
    \E u \in {"u1", "adm"}, id \in DOMAIN reservations : cancelReservation(u, id)
RecancelUpdateStatus ==
    \E id \in DOMAIN reservations, st \in StatusEnum : updateReservationStatus("adm", id, st)
RecancelAdminCancel ==
    \E id \in DOMAIN reservations :
        /\ reservations[id].status = "cancelled"
        /\ adminCancelReservation("adm", id)

NextRecancel ==
    \/ RecancelCreate
    \/ RecancelFirstCancel
    \/ RecancelUpdateStatus
    \/ RecancelAdminCancel
    \/ Tick

SpecRecancel == Init /\ [][NextRecancel]_vars

\* SpecReadOnly: availability checks between the requests that write.  One
\* user, room "r1" and the missing room, the room being deactivated and
\* reactivated, the clock advancing.
ReadOnlyCreate ==
    \E s \in StartTimes, e \in {4 * MsPerHour, 11 * MsPerHour} :
        createReservation("u1", "r1", s, e, 1)
ReadOnlyCancel == \E id \in DOMAIN reservations : cancelReservation("u1", id)
ReadOnlyUpdateRoom == \E act \in BOOLEAN : updateRoom("adm", "r1", 2, act)
ReadOnlyCheckAvailability ==
    \E r \in {"r1", "r9"}, s \in StartTimes, e \in EndTimes, x \in {NoId, 1} :
        checkAvailability("u1", r, s, e, x)

NextReadOnly ==
    \/ ReadOnlyCreate
    \/ ReadOnlyCancel
    \/ ReadOnlyUpdateRoom
    \/ ReadOnlyCheckAvailability
    \/ Tick

SpecReadOnly == Init /\ [][NextReadOnly]_vars

\* SpecFail: concurrent createReservation requests for room "r1" whose
\* database calls may reject.
FailValidate ==
    \E i \in DOMAIN inflight, s \in StartTimes, e \in {4 * MsPerHour, 11 * MsPerHour} :
        createValidate(i, "u1", "r1", s, e, 1)
FailFindRoom == \E i \in DOMAIN inflight : createFindRoom(i)
FailCheckAvailability == \E i \in DOMAIN inflight : createCheckAvailability(i)
FailInsert == \E i \in DOMAIN inflight : createInsert(i)
FailStorageFailure == \E i \in DOMAIN inflight : createStorageFailure(i)
FailInsertFailure ==
    \E i \in DOMAIN inflight, applied \in BOOLEAN : createInsertFailure(i, applied)

NextFail ==
    \/ FailValidate
    \/ FailFindRoom
    \/ FailCheckAvailability
    \/ FailInsert
    \/ FailStorageFailure
    \/ FailInsertFailure

SpecFail == Init /\ [][NextFail]_vars

\* SpecBody: createReservation bodies with and without a status key, the
\* owner cancelling, the clock standing at 0.
BodyCreate ==
    \E r \in RoomIds, s \in StartTimes, e \in {3 * MsPerHour, 4 * MsPerHour},
       st \in BodyStatusInputs :
        createReservationBody("u1", r, s, e, 1, st)
BodyCancel == \E id \in DOMAIN reservations : cancelReservation("u1", id)

NextBody ==
    \/ BodyCreate
    \/ BodyCancel

SpecBody == Init /\ [][NextBody]_vars

\* SpecSteps: one createReservation request at a time, split at its awaits
\* and with database calls that may reject, while users cancel, the admin
\* updates or deletes room "r1" and the clock advances.
StepsValidate ==
    \E r \in {"r1", "r9"},
       e \in {3 * MsPerHour, 3 * MsPerHour + 29 * MsPerMinute, 4 * MsPerHour,
              11 * MsPerHour + MsPerMinute},
       a \in {0, 1, 2} :
        createValidate(1, "u1", r, 3 * MsPerHour, e, a)
StepsFindRoom == createFindRoom(1)
StepsCheckAvailability == createCheckAvailability(1)
StepsInsert == createInsert(1)
StepsStorageFailure == createStorageFailure(1)
StepsInsertFailure == \E applied \in BOOLEAN : createInsertFailure(1, applied)
StepsCancel == \E u \in {"u1", "u2"}, id \in ReservationIds : cancelReservation(u, id)
StepsUpdateRoom == \E c \in Capacities, act \in BOOLEAN : updateRoom("adm", "r1", c, act)
StepsDeleteRoom == deleteRoom("adm", "r1")

NextSteps ==
    \/ StepsValidate
    \/ StepsFindRoom
    \/ StepsCheckAvailability
    \/ StepsInsert
    \/ StepsStorageFailure
    \/ StepsInsertFailure
    \/ StepsCancel
    \/ StepsUpdateRoom
    \/ StepsDeleteRoom
    \/ Tick

SpecSteps == Init /\ [][NextSteps]_vars

\* SpecRead: two users and the admin reading reservations while the two
\* users create and cancel them, the clock standing at 0.
ReadCreate ==
    \E u \in {"u1", "u2"}, r \in RoomIds, s \in StartTimes :
        createReservation(u, r, s, 4 * MsPerHour, 1)
ReadCancel == \E u \in {"u1", "u2"}, id \in DOMAIN reservations : cancelReservation(u, id)
ReadGetById == \E u \in Users, id \in ReservationIds : getReservationById(u, id)
ReadGetMine ==
    \E u \in Users, st \in {NoStatus, "confirmed", "cancelled", "archived"} :
        getUserReservations(u, st)

NextRead ==
    \/ ReadCreate
    \/ ReadCancel
    \/ ReadGetById
    \/ ReadGetMine

SpecRead == Init /\ [][NextRead]_vars

\* SpecCancelRace: cancelReservation requests of the two users, split at
\* their awaits, running while the admin sets statuses.
RaceCreate ==
    \E u \in {"u1", "u2"}, s \in StartTimes : createReservation(u, "r1", s, 4 * MsPerHour, 1)
RaceCancelFind ==
    \E i \in DOMAIN inflight, u \in {"u1", "u2"}, id \in ReservationIds : cancelFind(i, u, id)
RaceCancelSave == \E i \in DOMAIN inflight : cancelSave(i)
RaceUpdateStatus ==
    \E id \in ReservationIds, st \in StatusInputs : updateReservationStatus("adm", id, st)

NextCancelRace ==
    \/ RaceCreate
    \/ RaceCancelFind
    \/ RaceCancelSave
    \/ RaceUpdateStatus
    \/ Tick

SpecCancelRace == Init /\ [][NextCancelRace]_vars

\* SpecCatalog: the admin changes and deactivates room "r1" while it has
\* reservations; cancellations are requested only for reservations whose
\* room is deactivated at that moment.
CatalogCreate ==
    \E u \in {"u1", "u2"}, r \in RoomIds, s \in StartTimes :
        createReservation(u, r, s, 4 * MsPerHour, 1)
CatalogUpdateRoom == \E c \in Capacities, act \in BOOLEAN : updateRoom("adm", "r1", c, act)
CatalogDeleteRoom == deleteRoom("adm", "r1")
CatalogCancel ==
    \E u \in Users, id \in DOMAIN reservations :
        /\ ~rooms[reservations[id].room].isActive
        /\ cancelReservation(u, id)
CatalogAdminCancel ==
    \E id \in DOMAIN reservations :
        /\ ~rooms[reservations[id].room].isActive
        /\ adminCancelReservation("adm", id)

NextCatalog ==
    \/ CatalogCreate
    \/ CatalogUpdateRoom
    \/ CatalogDeleteRoom
    \/ CatalogCancel
    \/ CatalogAdminCancel
    \/ Tick

SpecCatalog == Init /\ [][NextCatalog]_vars

\* SpecAuth: requests behind the auth middleware, made with every token the
\* server has signed, while admins change the roles of, deactivate and
\* delete the accounts "u1" and "adm".
NextAuth ==
    \/ login("u1", "password123")
    \/ \E t \in issued.jwt :
         authenticated(t, createReservation(t.id, "r1", 3 * MsPerHour, 4 * MsPerHour, 1))
    \/ \E t \in issued.jwt, id \in DOMAIN reservations :
         authenticated(t, cancelReservation(t.id, id))
    \/ \E t \in issued.jwt, id \in {"u1", "adm"}, r \in Roles \cup {"owner"} :
         authenticated(t, updateUserRole(t.id, id, r))
    \/ \E t \in issued.jwt, id \in {"u1", "adm"} : authenticated(t, deleteUser(t.id, id))
    \/ \E t \in issued.jwt, id \in {"u1", "adm"} :
         authenticated(t, toggleUserStatus(t.id, id))

SpecAuth == Init /\ [][NextAuth]_vars

\* SpecAdminRace: admin user-management requests for the accounts "u1" and
\* "adm", made with every signed token, with their database calls
\* interleaving.
NextAdminRace ==
    \/ login("u1", "password123")
    \/ \E i \in DOMAIN inflight, t \in issued.jwt, id \in {"u1", "adm"},
          op \in {"updateUserRole", "deleteUser", "toggleUserStatus"}, r \in Roles :
         adminBegin(i, t, op, id, r)
    \/ \E i \in DOMAIN inflight : adminApply(i)

SpecAdminRace == Init /\ [][NextAdminRace]_vars

\* SpecAccounts: the public account routes and the profile routes, with the
\* admin's updateUserRole, while the clock passes the lifetime of a reset
\* token.
NextAccounts ==
    \/ \E e \in {"u1", "n1"}, rk \in {"", "admin", "owner"} : register(e, "password123", rk)
    \/ \E p \in {"password123", "newpass1"} : login("u1", p)
    \/ \E t \in issued.jwt, e \in {"u1", "u2"}, rk \in {"", "admin"} :
         authenticated(t, updateProfile(t.id, e, rk))
    \/ \E t \in issued.jwt, p \in {"password123", "newpass1"} :
         authenticated(t, changePassword(t.id, p, "newpass2"))
    \/ \E e \in {"u1", "u2", "nobody"} : forgotPassword(e)
    \/ \E k \in 1..(MaxResetTokens + 1) : resetPassword(k, "newpass1")
    \/ \E t \in issued.jwt : authenticated(t, updateUserRole(t.id, "u2", "admin"))
    \/ \E t \in {0, 1, ResetTokenLifetime, ResetTokenLifetime + 1} :
         /\ t > now /\ now' = t
         /\ UNCHANGED <<rooms, reservations, inflight, resp, users, issued>>

SpecAccounts == Init /\ [][NextAccounts]_vars

\* SpecRooms: the admin creates rooms, renames and moves them, and
\* deactivates room "r1".
NextRooms ==
    \/ \E n \in {"A", "B"}, b \in {"HQ", "Annex"} : createRoom("adm", n, b)
    \/ \E r \in {"r1", "r2", "r3"}, n \in {"", "A", "B"}, b \in {"", "HQ", "Annex"} :
         updateRoomBody("adm", r, n, b)
    \/ deleteRoom("adm", "r1")

SpecRooms == Init /\ [][NextRooms]_vars

\* SpecCompletion: the users' requests while the clock runs past the end of
\* the reservations.  The repository starts no timer or job, so these steps
\* are all that happens without an admin's request.  Time always
\* passes: the clock step is weakly fair.
CompletionTimes == NowTimes \cup {4 * MsPerHour, 12 * MsPerHour}
TickPastEnd ==
    /\ \E t \in CompletionTimes : t > now /\ now' = t
    /\ UNCHANGED <<rooms, reservations, inflight, resp, users, issued>>
CompletionCreate ==
    \E u \in {"u1", "u2"}, r \in RoomIds, s \in StartTimes :
        createReservation(u, r, s, 4 * MsPerHour, 1)
CompletionCancel ==
    \E u \in {"u1", "u2"}, id \in ReservationIds : cancelReservation(u, id)

NextCompletion ==
    \/ CompletionCreate
    \/ CompletionCancel
    \/ TickPastEnd

SpecCompletion == Init /\ [][NextCompletion]_vars /\ WF_vars(TickPastEnd)

(***************************************************************************)
(* Properties                                                              *)
(***************************************************************************)
active(d) == d.status \in {"pending", "confirmed"}

\* half-open intervals [a,b) and [c,d) overlap iff a < d and c < b
overlaps(a, b, c, d) == a < d /\ c < b

\* durations the admission policy accepts
durationAllowed(s, e) == e - s >= 30 * MsPerMinute /\ e - s <= 8 * MsPerHour

\* some active reservation of the room overlaps [s,e)
slotHeld(roomId, s, e) ==
    \E i \in DOMAIN reservations :
        /\ reservations[i].room = roomId
        /\ active(reservations[i])
        /\ overlaps(reservations[i].startTime, reservations[i].endTime, s, e)

\* the request was admitted: one document more, the others as they were
admitted(u, roomId, s, e, a) ==
    /\ resp'.status = 201
    /\ Len(reservations') = Len(reservations) + 1
    /\ SubSeq(reservations', 1, Len(reservations)) = reservations
    /\ LET d == reservations'[Len(reservations')]
       IN  /\ d.user = u /\ d.room = roomId /\ d.attendees = a
           /\ d.startTime = s /\ d.endTime = e
           /\ active(d)

\* C1: for every room, no two distinct reservations with status pending or
\* confirmed have overlapping intervals, after any sequence of createReservation,
\* cancelReservation, adminCancelReservation and updateReservationStatus
\* requests processed one at a time.
C1_NoOverlap ==
    \A i, j \in DOMAIN reservations :
        (i # j /\ reservations[i].room = reservations[j].room
               /\ active(reservations[i]) /\ active(reservations[j]))
        => ~overlaps(reservations[i].startTime, reservations[i].endTime,
                     reservations[j].startTime, reservations[j].endTime)

\* C2: of two createReservation requests for overlapping intervals on the same
\* room that run concurrently, at most one is admitted: the collection never
\* holds both as active reservations.
C2_AtMostOneAdmitted ==
    ~ \E i, j \in DOMAIN reservations :
        /\ i < j
        /\ reservations[i].room = reservations[j].room
        /\ reservations[i].status = "confirmed"
        /\ reservations[j].status = "confirmed"
        /\ reservations[i].startTime < reservations[j].endTime
        /\ reservations[j].startTime < reservations[i].endTime

\* C3: for every room and every candidate interval [s,e) with s < e,
\* Reservation.checkAvailability reports the slot unavailable exactly when some
\* reservation on that room with status pending or confirmed has start < e and
\* s < end; other rooms and cancelled or completed reservations have no effect.
C3_CheckAvailabilityIsOverlap ==
    \A r \in RoomInputs, s \in StartTimes \cup EndTimes, e \in StartTimes \cup EndTimes :
        s < e =>
            (Reservation_checkAvailability(reservations, r, s, e, NoId)
                <=> ~ \E i \in DOMAIN reservations :
                        /\ reservations[i].room = r
                        /\ reservations[i].status \in {"pending", "confirmed"}
                        /\ reservations[i].startTime < e
                        /\ s < reservations[i].endTime)

\* the availability check has answered "unavailable" while the collection also
\* holds a reservation that is no longer active
C3_Witness ==
    /\ resp.op = "checkAvailability" /\ resp.status = 200 /\ ~resp.available
    /\ \E i \in DOMAIN reservations : ~active(reservations[i])
    /\ \E i \in DOMAIN reservations : active(reservations[i])

\* C4: back-to-back intervals do not conflict: with an active reservation [a,b)
\* on a room, a createReservation for [b,c) on that room, or for [z,a), that no
\* active reservation overlaps and that passes the other rules is admitted, and
\* both reservations are then active together.
C4_BackToBackAdmitted ==
    [][resp'.op = "createReservation" =>
       \A r \in RoomIds, s \in StartTimes, e \in EndTimes :
         ( /\ s > now /\ e > s /\ durationAllowed(s, e)
           /\ \E i \in DOMAIN reservations :
                /\ reservations[i].room = r /\ active(reservations[i])
                /\ (reservations[i].endTime = s \/ reservations[i].startTime = e)
           /\ ~slotHeld(r, s, e)
           /\ createReservation("u1", r, s, e, 1) )
         => /\ admitted("u1", r, s, e, 1)
            /\ \E i \in DOMAIN reservations :
                 /\ reservations'[i].room = r /\ active(reservations'[i])
                 /\ (reservations'[i].endTime = s \/ reservations'[i].startTime = e)
      ]_vars

\* [a,b) was booked first and [b,c) after it; both are active
C4_Witness ==
    /\ resp.op = "createReservation" /\ resp.status = 201
    /\ Len(reservations) = 2
    /\ reservations[1].room = reservations[2].room
    /\ active(reservations[1]) /\ active(reservations[2])
    /\ reservations[1].endTime = reservations[2].startTime

\* C5: a cancelled or completed reservation no longer holds its slot: a
\* createReservation for the room and interval of a reservation that is now
\* cancelled or completed, passing the other admission rules, is admitted.
C5_FreedSlotAdmitted ==
    [][resp'.op = "createReservation" =>
       \A r \in RoomIds, s \in StartTimes, e \in EndTimes :
         ( /\ s > now /\ e > s /\ durationAllowed(s, e)
           /\ \E i \in DOMAIN reservations :
                /\ reservations[i].room = r
                /\ reservations[i].startTime = s /\ reservations[i].endTime = e
                /\ reservations[i].status \in {"cancelled", "completed"}
           /\ ~slotHeld(r, s, e)
           /\ createReservation("u1", r, s, e, 1) )
         => admitted("u1", r, s, e, 1)
      ]_vars

\* the slot of a completed reservation has been booked again
C5_Witness ==
    /\ resp.op = "createReservation" /\ resp.status = 201
    /\ Len(reservations) = 2
    /\ reservations[1].status = "completed"
    /\ reservations[2].status = "confirmed"
    /\ reservations[1].room = reservations[2].room
    /\ reservations[1].startTime = reservations[2].startTime
    /\ reservations[1].endTime = reservations[2].endTime

\* the outcome of a createReservation request when the admission rules are
\* taken in the order (1) room, (2) capacity, (3) start, (4) end, (5) duration,
\* (6) conflict
outcomeInStatedOrder(r, s, e, a) ==
    IF r \notin DOMAIN rooms \/ ~rooms[r].isActive THEN MsgRoomNotFound
    ELSE IF a > rooms[r].capacity THEN MsgCapacity
    ELSE IF ~(s > now) THEN MsgStartInFuture
    ELSE IF ~(e > s) THEN MsgEndAfterStart
    ELSE IF e - s < 30 * MsPerMinute THEN MsgTooShort
    ELSE IF e - s > 8 * MsPerHour THEN MsgTooLong
    ELSE IF slotHeld(r, s, e) THEN MsgSlotTaken
    ELSE MsgCreated

\* C6: createReservation evaluates its admission rules in the order room,
\* capacity, start after now, end after start, duration, conflict, and reports
\* the rejection of the first rule violated in this order.
C6_AdmissionOrder ==
    [][resp'.op = "createReservation" =>
       \A r \in RoomInputs, s \in StartTimes, e \in EndTimes, a \in AttendeeInputs \ {0} :
         createReservation("u1", r, s, e, a)
         => resp'.message = outcomeInStatedOrder(r, s, e, a)
      ]_vars

\* C7: for an active room of capacity C, a createReservation that passes the
\* other rules is admitted when attendees <= C and rejected as capacity
\* exceeded, with no reservation created, when attendees > C; C is the
\* capacity the room has when the request is made.
C7_CapacityBoundary ==
    [][resp'.op = "createReservation" =>
       \A r \in DOMAIN rooms, s \in StartTimes, e \in EndTimes, a \in AttendeeInputs :
         ( /\ a >= 1 /\ s > now /\ e > s /\ durationAllowed(s, e)
           /\ rooms[r].isActive
           /\ ~slotHeld(r, s, e)
           /\ createReservation("u1", r, s, e, a) )
         => IF a <= rooms[r].capacity
            THEN admitted("u1", r, s, e, a)
            ELSE /\ resp'.status = 400 /\ resp'.message = MsgCapacity
                 /\ reservations' = reservations
      ]_vars

\* a request for exactly the capacity of a room whose capacity was lowered
C7_Witness ==
    /\ resp.op = "createReservation" /\ resp.status = 201
    /\ Len(reservations) > 0
    /\ LET d == reservations[Len(reservations)]
       IN  d.attendees = rooms[d.room].capacity /\ rooms[d.room].capacity = 1

\* C8: a createReservation otherwise admissible is admitted when end - start is
\* between 30 minutes and 8 hours, both included, rejected as too short below
\* 30 minutes and as too long above 8 hours, creating nothing; so every stored
\* reservation has a duration within [30 min, 8 h].
C8_DurationBoundary ==
    /\ [](\A i \in DOMAIN reservations :
            /\ reservations[i].endTime - reservations[i].startTime >= 30 * MsPerMinute
            /\ reservations[i].endTime - reservations[i].startTime <= 8 * MsPerHour)
    /\ [][resp'.op = "createReservation" =>
          \A r \in DOMAIN rooms, s \in StartTimes, e \in EndTimes, a \in AttendeeInputs :
            ( /\ a >= 1 /\ s > now /\ e > s
              /\ rooms[r].isActive /\ a <= rooms[r].capacity
              /\ ~slotHeld(r, s, e)
              /\ createReservation("u1", r, s, e, a) )
            => IF e - s < 30 * MsPerMinute
               THEN /\ resp'.status = 400 /\ resp'.message = MsgTooShort
                    /\ reservations' = reservations
               ELSE IF e - s > 8 * MsPerHour
               THEN /\ resp'.status = 400 /\ resp'.message = MsgTooLong
                    /\ reservations' = reservations
               ELSE admitted("u1", r, s, e, a)
         ]_vars

\* a reservation of exactly 30 minutes was stored, and after it one that
\* starts when it ends
C8_Witness ==
    /\ resp.op = "createReservation" /\ resp.status = 201
    /\ Len(reservations) = 2
    /\ reservations[1].endTime - reservations[1].startTime = 30 * MsPerMinute
    /\ reservations[2].startTime = reservations[1].endTime

\* C9: every reservation stored by createReservation starts strictly after the
\* time at which the request was validated and ends strictly after its start;
\* a request with start <= now or end <= start is rejected as a validation
\* failure and creates no reservation.
C9_FutureStart ==
    /\ [](\A i \in DOMAIN reservations :
            reservations[i].endTime > reservations[i].startTime)
    /\ [][resp'.op = "createReservation" =>
          \A r \in RoomInputs, s \in StartTimes, e \in EndTimes, a \in AttendeeInputs :
            createReservation("u1", r, s, e, a)
            => /\ (s <= now \/ e <= s)
                    => /\ resp'.status = 400
                       /\ resp'.message \in {MsgStartInFuture, MsgEndAfterStart}
                       /\ reservations' = reservations
               /\ reservations' # reservations
                    => /\ reservations'[Len(reservations')].startTime > now
                       /\ reservations'[Len(reservations')].endTime
                              > reservations'[Len(reservations')].startTime
         ]_vars

\* at 03:00 a reservation starting at 03:30 has been stored
C9_Witness ==
    /\ resp.op = "createReservation" /\ resp.status = 201
    /\ now = 3 * MsPerHour
    /\ Len(reservations) > 0
    /\ reservations[Len(reservations)].startTime > now

\* C10: a cancel request by the owning non-admin user succeeds, setting the
\* status to cancelled, exactly when the status is confirmed and now is
\* strictly more than 2 hours before the start; otherwise it is rejected and
\* the reservation is unchanged.
C10_OwnerCancelLeadTime ==
    [][resp'.op = "cancelReservation" =>
       \A u \in {"u1", "u2"}, id \in DOMAIN reservations :
         (reservations[id].user = u /\ cancelReservation(u, id))
         => IF /\ reservations[id].status = "confirmed"
               /\ now + 2 * MsPerHour < reservations[id].startTime
            THEN /\ resp'.status = 200
                 /\ reservations' = [reservations EXCEPT ![id].status = "cancelled"]
            ELSE /\ resp'.status # 200
                 /\ reservations' = reservations
      ]_vars

\* an owner's cancel was rejected exactly two hours before the start of a
\* confirmed reservation
C10_Witness ==
    /\ resp.op = "cancelReservation" /\ resp.message = MsgTooLate
    /\ now = MsPerHour
    /\ Len(reservations) = 1
    /\ reservations[1].status = "confirmed"
    /\ reservations[1].startTime = now + 2 * MsPerHour

\* C11: a cancel request by the owning non-admin user for a confirmed
\* reservation that starts in 2 hours or less is rejected with the
\* access-denied status 403, the status a non-owner's cancel gets.
C11_LeadTimeRejectionIsAccessDenied ==
    [][resp'.op = "cancelReservation" =>
       \A u \in {"u1", "u2"}, id \in DOMAIN reservations :
         (/\ reservations[id].user = u
          /\ reservations[id].status = "confirmed"
          /\ ~(now + 2 * MsPerHour < reservations[id].startTime)
          /\ cancelReservation(u, id))
         => resp'.status = 403
      ]_vars

\* C12: a cancel request by an admin for any stored reservation, through
\* the user route or the admin route, answers 200 and leaves that
\* reservation cancelled and every other one as it was.
C12_AdminCancelUnconditional ==
    [][resp'.op \in {"cancelReservation", "adminCancelReservation"} =>
       \A id \in DOMAIN reservations :
         (cancelReservation("adm", id) \/ adminCancelReservation("adm", id))
         => /\ resp'.status = 200
            /\ reservations' = [reservations EXCEPT ![id].status = "cancelled"]
      ]_vars

\* the user route answered 200 and the reservation of "u1", whose start time
\* has come, is cancelled
C12_Witness ==
    /\ resp.op = "cancelReservation" /\ resp.status = 200
    /\ now = 3 * MsPerHour
    /\ Len(reservations) = 1
    /\ reservations[1].user = "u1" /\ reservations[1].startTime = now
    /\ reservations[1].status = "cancelled"

\* C13: a cancel request by a non-admin who is not the reservation's user is
\* rejected with 403 whatever the status and the time to start, and the
\* reservations are unchanged.
C13_OwnershipBeforeLeadTime ==
    [][resp'.op = "cancelReservation" =>
       \A u \in {"u1", "u2"}, id \in DOMAIN reservations :
         (reservations[id].user # u /\ cancelReservation(u, id))
         => /\ resp'.status = 403 /\ resp'.message = MsgNotOwner
            /\ reservations' = reservations
      ]_vars

\* a non-owner's cancel was refused as access denied for a reservation the
\* owner could not cancel either: it is completed and its start has come
C13_Witness ==
    /\ resp.op = "cancelReservation" /\ resp.message = MsgNotOwner
    /\ now = 3 * MsPerHour
    /\ Len(reservations) = 1
    /\ reservations[1].status = "completed"
    /\ reservations[1].startTime = now

\* C14: once the status of a reservation is cancelled or completed, no
\* request changes it to a different value, and a request that would is
\* answered with the validation status 400.
C14_TerminalStatuses ==
    [][\A id \in DOMAIN reservations :
         reservations[id].status \in {"cancelled", "completed"}
         => /\ reservations'[id].status = reservations[id].status
            /\ \A u \in Users :
                 (\/ cancelReservation(u, id)
                  \/ adminCancelReservation(u, id) /\ reservations[id].status # "cancelled"
                  \/ \E st \in StatusEnum \ {reservations[id].status} :
                       updateReservationStatus(u, id, st))
                 => resp'.status \in {400, 403}
      ]_vars

C16_StatusUpdateRejections ==
    /\ [](\A id \in DOMAIN reservations : reservations[id].status \in StatusEnum)
    /\ [][resp'.op = "updateReservationStatus" =>
          \A id \in ReservationIds, st \in StatusInputs :
            updateReservationStatus("adm", id, st)
            => /\ st \notin StatusEnum
                  => resp'.status = 400 /\ reservations' = reservations
               /\ (st \in StatusEnum /\ id \notin DOMAIN reservations)
                  => resp'.status = 404 /\ reservations' = reservations
         ]_vars

\* the target was refused as invalid while a reservation was stored
C16_Witness ==
    /\ resp.op = "updateReservationStatus" /\ resp.message = MsgInvalidStatus
    /\ Len(reservations) = 1
    /\ reservations[1].status = "confirmed"

C18_ExcludeSelf ==
    \A x \in DOMAIN reservations, r \in RoomIds, s \in StartTimes, e \in EndTimes :
        (active(reservations[x]) /\ s < e) =>
            (Reservation_checkAvailability(reservations, r, s, e, x)
                <=> ~ \E i \in DOMAIN reservations \ {x} :
                        /\ reservations[i].room = r
                        /\ active(reservations[i])
                        /\ overlaps(reservations[i].startTime, reservations[i].endTime, s, e))

\* each room has an active reservation 03:00-11:00, which every request
\* interval overlaps, and the availability check has answered "available":
\* the request excluded the reservation of its room
C18_Witness ==
    /\ resp.op = "checkAvailability" /\ resp.status = 200 /\ resp.available
    /\ Len(reservations) = 2
    /\ reservations[1].room # reservations[2].room
    /\ \A i \in DOMAIN reservations :
         /\ active(reservations[i])
         /\ reservations[i].startTime = 3 * MsPerHour
         /\ reservations[i].endTime = 11 * MsPerHour

\* C19: a checkAvailability request, whatever its arguments and its answer
\* (available, unavailable, validation error, room not found), leaves every
\* reservation and every room as it was; nothing that a later request reads
\* (reservations, rooms, requests in flight) differs from what it would have
\* read without the check.
C19_CheckAvailabilityReadOnly ==
    [][resp'.op = "checkAvailability" =>
       \A r \in RoomInputs, s \in StartTimes, e \in EndTimes, x \in {NoId, 1} :
         checkAvailability("u1", r, s, e, x)
         => /\ reservations' = reservations
            /\ rooms' = rooms
            /\ inflight' = inflight
      ]_vars

\* the check was refused for the deactivated room "r1", which has a
\* reservation
C19_Witness ==
    /\ resp.op = "checkAvailability" /\ resp.status = 404
    /\ ~rooms["r1"].isActive
    /\ Len(reservations) = 1
    /\ active(reservations[1])

\* C20: when Room.findById or the conflict query rejects during
\* createReservation the request ends with 500 and nothing is inserted; a
\* request reaches the insert only after a conflict query that found no
\* conflict; when the insert rejects the request ends with 500; and every
\* step inserts at most one reservation and ends the request that inserted
\* it, so one request inserts at most one reservation.
C20_StorageFailureSurfaced ==
    [][/\ \A i \in DOMAIN inflight :
            /\ createStorageFailure(i)
               => /\ resp' = Response("createReservation", 500, MsgInternal)
                  /\ inflight'[i] = Idle
                  /\ reservations' = reservations
            /\ (/\ inflight[i].pc = "Reservation.checkAvailability"
                /\ inflight'[i].pc = "Reservation.create")
               => Reservation_checkAvailability(reservations, inflight[i].room,
                      inflight[i].startTime, inflight[i].endTime, NoId)
            /\ (\E applied \in BOOLEAN : createInsertFailure(i, applied))
               => resp'.status = 500 /\ inflight'[i] = Idle
       /\ Len(reservations') > Len(reservations)
          => /\ Len(reservations') = Len(reservations) + 1
             /\ \E i \in DOMAIN inflight :
                  inflight[i].pc = "Reservation.create" /\ inflight'[i] = Idle
      ]_vars

\* a request ended with 500 while the other one waits for its conflict query
\* and an active reservation holds the slot it asks for
C20_Witness ==
    /\ resp.op = "createReservation" /\ resp.status = 500
    /\ Len(reservations) = 1
    /\ inflight[1] = Idle
    /\ inflight[2].pc = "Reservation.checkAvailability"
    /\ ~Reservation_checkAvailability(reservations, inflight[2].room,
            inflight[2].startTime, inflight[2].endTime, NoId)

C22_FixedAtCreation ==
    [][\A id \in DOMAIN reservations :
         /\ id \in DOMAIN reservations'
         /\ reservations'[id].room = reservations[id].room
         /\ reservations'[id].user = reservations[id].user
         /\ reservations'[id].startTime = reservations[id].startTime
         /\ reservations'[id].endTime = reservations[id].endTime
         /\ reservations'[id].attendees = reservations[id].attendees
      ]_vars

\* after a status update by the admin the first reservation is completed and
\* still is the one "u2" made for room "r2" at 03:30, the second is pending
C22_Witness ==
    /\ resp.op = "updateReservationStatus" /\ resp.status = 200
    /\ Len(reservations) = 2
    /\ reservations[1] = [newReservation("u2", "r2", 3 * MsPerHour + 30 * MsPerMinute,
                                         4 * MsPerHour, 1) EXCEPT !.status = "completed"]
    /\ reservations[2].status = "pending"

\* C23: a reservation that createReservation admits is stored with status
\* confirmed whatever status the request body carried, and from that moment
\* Reservation.checkAvailability answers "unavailable" for its room and
\* interval.
C23_InitialStatusConfirmed ==
    [][resp'.op = "createReservation" =>
       \A r \in RoomIds, s \in StartTimes, e \in {3 * MsPerHour, 4 * MsPerHour},
          st \in BodyStatusInputs :
         createReservationBody("u1", r, s, e, 1, st)
         => (resp'.status = 201
             => /\ Len(reservations') = Len(reservations) + 1
                /\ reservations'[Len(reservations')].status = "confirmed"
                /\ ~Reservation_checkAvailability(reservations', r, s, e, NoId))
      ]_vars

\* a body carrying a status has been refused and the stored reservation is
\* confirmed
C23_Witness ==
    /\ resp.op = "createReservation" /\ resp.message = MsgStatusNotAllowed
    /\ Len(reservations) = 1
    /\ reservations[1].status = "confirmed"

\* the kinds of rejection of createReservation and cancelReservation and
\* the status and message that report each
RejectionReasons ==
    {[kind |-> "validation", status |-> 400, message |-> m] :
        m \in {MsgStartInFuture, MsgEndAfterStart, MsgAttendeesMin}}
    \cup {[kind |-> "duration", status |-> 400, message |-> m] :
        m \in {MsgTooShort, MsgTooLong}}
    \cup {[kind |-> "room not found", status |-> 404, message |-> MsgRoomNotFound],
          [kind |-> "capacity exceeded", status |-> 400, message |-> MsgCapacity],
          [kind |-> "slot conflict", status |-> 409, message |-> MsgSlotTaken],
          [kind |-> "reservation not found", status |-> 404, message |-> MsgResNotFound],
          [kind |-> "access denied", status |-> 403, message |-> MsgNotOwner],
          [kind |-> "lead time", status |-> 400, message |-> MsgTooLate],
          [kind |-> "storage failure", status |-> 500, message |-> MsgInternal]}

\* the kinds a response's status and message stand for
rejectionKinds(r) ==
    {x.kind : x \in {y \in RejectionReasons :
                        y.status = r.status /\ y.message = r.message}}

\* C24: every rejection of createReservation and cancelReservation carries
\* a status and message that stand for exactly one kind of rejection, and
\* that kind is the rule the request broke: validation, room not found or
\* inactive, capacity exceeded, slot conflict, duration, reservation not
\* found, access denied, lead time, storage failure.  No two kinds share a
\* status and message.
C24_DistinctReasons ==
    /\ [](\A x, y \in RejectionReasons :
            (x.status = y.status /\ x.message = y.message) => x.kind = y.kind)
    /\ [][/\ \A r \in RoomInputs, e \in EndTimes, a \in AttendeeInputs :
              (createValidate(1, "u1", r, 3 * MsPerHour, e, a) /\ inflight'[1] = Idle)
              => /\ rejectionKinds(resp') = {"validation"}
                 /\ (~(3 * MsPerHour > now) \/ ~(e > 3 * MsPerHour) \/ a < 1)
          /\ (createFindRoom(1) /\ inflight'[1] = Idle)
             => LET q == inflight[1]
                    missing == q.room \notin DOMAIN rooms \/ ~rooms[q.room].isActive
                IN  \/ rejectionKinds(resp') = {"room not found"} /\ missing
                    \/ /\ rejectionKinds(resp') = {"capacity exceeded"}
                       /\ ~missing /\ q.attendees > rooms[q.room].capacity
          /\ (createCheckAvailability(1) /\ inflight'[1] = Idle)
             => LET q == inflight[1]
                IN  \/ /\ rejectionKinds(resp') = {"slot conflict"}
                       /\ slotHeld(q.room, q.startTime, q.endTime)
                    \/ /\ rejectionKinds(resp') = {"duration"}
                       /\ ~durationAllowed(q.startTime, q.endTime)
          /\ (createStorageFailure(1) \/ \E applied \in BOOLEAN : createInsertFailure(1, applied))
             => rejectionKinds(resp') = {"storage failure"}
          /\ resp'.op = "cancelReservation" =>
               \A u \in {"u1", "u2"}, id \in ReservationIds :
                 (cancelReservation(u, id) /\ resp'.status # 200)
                 => \/ /\ rejectionKinds(resp') = {"reservation not found"}
                       /\ id \notin DOMAIN reservations
                    \/ /\ rejectionKinds(resp') = {"access denied"}
                       /\ id \in DOMAIN reservations /\ reservations[id].user # u
                    \/ /\ rejectionKinds(resp') = {"lead time"}
                       /\ id \in DOMAIN reservations /\ reservations[id].user = u
                       /\ ~(/\ reservations[id].status = "confirmed"
                            /\ now + 2 * MsPerHour < reservations[id].startTime)
         ]_vars

\* a request was refused for asking more attendees than room "r1" holds,
\* while an active reservation holds the one slot of that room that the
\* requests ask for
C24_Witness ==
    /\ resp.op = "createReservation"
    /\ rejectionKinds(resp) = {"capacity exceeded"}
    /\ rooms["r1"].isActive /\ rooms["r1"].capacity = 1
    /\ Len(reservations) = 1 /\ active(reservations[1])
    /\ inflight[1] = Idle

\* C25: a createReservation or checkAvailability request for a room that
\* does not exist or is not active is rejected as room-not-found (404) and
\* stores nothing; so after deleteRoom no createReservation for the room is
\* admitted until the room is active again.
C25_InactiveRoomRejected ==
    [][resp'.op \in {"createReservation", "checkAvailability"} =>
       \A r \in RoomInputs, s \in StartTimes, e \in EndTimes, a \in AttendeeInputs :
         (/\ r \notin DOMAIN rooms \/ ~rooms[r].isActive
          /\ \/ createReservation("u1", r, s, e, a)
             \/ checkAvailability("u1", r, s, e, NoId))
         => /\ resp'.status = 404 /\ resp'.message = MsgRoomNotFound
            /\ reservations' = reservations
      ]_vars

\* C26: a confirmed reservation whose end time has passed is eventually
\* completed without any request, and no reservation goes from confirmed to
\* completed while now is before its end.
C26_TimeTriggeredCompletion ==
    /\ \A id \in 1..MaxReservations :
         (IF id \in DOMAIN reservations
          THEN reservations[id].status = "confirmed" /\ now >= reservations[id].endTime
          ELSE FALSE)
         ~> (IF id \in DOMAIN reservations
             THEN reservations[id].status = "completed"
             ELSE FALSE)
    /\ [][\A id \in DOMAIN reservations :
            (reservations[id].status = "confirmed" /\ reservations'[id].status = "completed")
            => now >= reservations[id].endTime
         ]_vars

\* C27: a request by a non-admin leaves every reservation of another user
\* as it was and changes the status of the requester's own reservations to
\* nothing but cancelled; a non-admin's updateReservationStatus or
\* adminCancelReservation is answered 403 whatever the id and the target,
\* stored or not, valid or not, and changes nothing.
C27_NonAdminStatusChanges ==
    [][resp'.op \in {"cancelReservation", "updateReservationStatus",
                     "adminCancelReservation"} =>
       \A u \in {"u1", "u2"}, id \in ReservationIds :
         /\ cancelReservation(u, id)
            => /\ Len(reservations') = Len(reservations)
               /\ \A j \in DOMAIN reservations :
                    IF reservations[j].user # u
                    THEN reservations'[j] = reservations[j]
                    ELSE reservations'[j].status \in {reservations[j].status, "cancelled"}
         /\ (\/ adminCancelReservation(u, id)
             \/ \E st \in StatusInputs : updateReservationStatus(u, id, st))
            => /\ resp'.status = 403 /\ resp'.message = MsgForbidden
               /\ reservations' = reservations
      ]_vars

\* the admin cancel route has answered 403 and the two reservations, one of
\* each user, are still confirmed
C27_Witness ==
    /\ resp.op = "adminCancelReservation" /\ resp.status = 403
    /\ Len(reservations) = 2
    /\ reservations[1].user # reservations[2].user
    /\ reservations[1].status = "confirmed"
    /\ reservations[2].status = "confirmed"

\* C28: getReservationById gives a non-admin the document only when the
\* requester is its user, and answers 403 without data for a stored
\* reservation of someone else; getUserReservations gives exactly the
\* requester's own reservations that match the query.  The data a non-admin
\* gets is made of the requester's own reservations only.
C28_ReadIsolation ==
    [][resp'.op \in {"getReservationById", "getUserReservations"} =>
       \A u \in {"u1", "u2"} :
         /\ \A id \in ReservationIds :
              getReservationById(u, id)
              => IF id \in DOMAIN reservations /\ reservations[id].user = u
                 THEN /\ resp'.status = 200
                      /\ resp'.data = <<document(reservations, id)>>
                 ELSE /\ resp'.data = <<>>
                      /\ id \in DOMAIN reservations => resp'.status = 403
         /\ \A st \in {NoStatus, "confirmed", "cancelled"} :
              getUserReservations(u, st)
              => /\ resp'.status = 200
                 /\ \A k \in DOMAIN resp'.data : resp'.data[k].reservation.user = u
                 /\ {resp'.data[k] : k \in DOMAIN resp'.data}
                      = {document(reservations, i) :
                           i \in {j \in DOMAIN reservations :
                                    /\ reservations[j].user = u
                                    /\ st # NoStatus => reservations[j].status = st}}
      ]_vars

\* a user asked for a stored reservation and got 403 and no data while each
\* of the two users has a reservation
C28_Witness ==
    /\ resp.op = "getReservationById" /\ resp.status = 403 /\ resp.data = <<>>
    /\ Len(reservations) = 2
    /\ reservations[1].user # reservations[2].user

\* C29: a createReservation that is rejected (validation, duration, room not
\* found, capacity, conflict) leaves the stored reservations as they were,
\* and so does every step of the handler before the insert; a
\* cancelReservation that is rejected (not found, not the owner, lead time or
\* status) leaves every stored reservation, the targeted one included, as it
\* was.
C29_RejectionChangesNothing ==
    [][/\ \A r \in {"r1", "r9"},
             e \in {3 * MsPerHour, 3 * MsPerHour + 29 * MsPerMinute,
                    4 * MsPerHour, 11 * MsPerHour + MsPerMinute},
             a \in {0, 1, 2} :
            createValidate(1, "u1", r, 3 * MsPerHour, e, a)
            => reservations' = reservations
       /\ createFindRoom(1) \/ createCheckAvailability(1)
            => reservations' = reservations
       /\ resp'.op = "createReservation" /\ resp'.status \in {400, 404, 409}
            => reservations' = reservations
       /\ \A u \in {"u1", "u2"}, id \in ReservationIds :
            cancelReservation(u, id) /\ resp'.status # 200
            => reservations' = reservations
      ]_vars

\* a cancellation was refused for the lead time while a confirmed reservation
\* that starts in less than CancelLeadHours is stored
C29_Witness ==
    /\ resp = Response("cancelReservation", 400, MsgTooLate)
    /\ \E id \in DOMAIN reservations :
         /\ reservations[id].status = "confirmed"
         /\ reservations[id].startTime - now < CancelLeadHours * MsPerHour

\* C30: whenever a reservation is inserted, its room is stored and active at
\* that moment and its attendees are within the room's capacity at that
\* moment, also when an admin's deleteRoom or updateRoom runs between the
\* steps of the createReservation.
C30_RoomCheckedAtInsert ==
    [][Len(reservations') > Len(reservations) =>
         LET d == reservations'[Len(reservations')]
         IN  /\ d.room \in DOMAIN rooms
             /\ rooms[d.room].isActive
             /\ d.attendees <= rooms[d.room].capacity
      ]_vars

\* C31: an owner's cancelReservation writes 'cancelled' only over a status
\* that is 'confirmed' at the moment of the write, also when an admin's
\* updateReservationStatus ran between the read and the write.
C31_CancelWritesOverConfirmedOnly ==
    [][\A i \in DOMAIN inflight :
         (inflight[i].pc = "reservation.save" /\ cancelSave(i))
         => reservations[inflight[i].reservation].status = "confirmed"
      ]_vars

\* C32: deleteRoom and updateRoom change no reservation; after them every
\* active reservation of the room is still found by the conflict query for
\* its slot; and a reservation of a deactivated room is cancelled by its
\* owner under the usual lead-time rule and by an admin on either route.
C32_CatalogLeavesReservations ==
    [][/\ resp'.op = "updateRoom"
            => \A c \in Capacities, act \in BOOLEAN :
                 updateRoom("adm", "r1", c, act)
                 => /\ reservations' = reservations
                    /\ \A i \in DOMAIN reservations :
                         reservations[i].room = "r1" /\ active(reservations[i])
                         => ~Reservation_checkAvailability(reservations', "r1",
                                reservations[i].startTime, reservations[i].endTime, NoId)
       /\ resp'.op = "deleteRoom"
            => (deleteRoom("adm", "r1")
                 => /\ reservations' = reservations
                    /\ \A i \in DOMAIN reservations :
                         reservations[i].room = "r1" /\ active(reservations[i])
                         => ~Reservation_checkAvailability(reservations', "r1",
                                reservations[i].startTime, reservations[i].endTime, NoId))
       /\ resp'.op \in {"cancelReservation", "adminCancelReservation"}
            => \A id \in DOMAIN reservations :
                 ~rooms[reservations[id].room].isActive /\ active(reservations[id])
                 => /\ (canBeCancelled(reservations[id], now)
                          /\ cancelReservation(reservations[id].user, id))
                       => resp'.status = 200 /\ reservations'[id].status = "cancelled"
                    /\ cancelReservation("adm", id)
                       => resp'.status = 200 /\ reservations'[id].status = "cancelled"
                    /\ adminCancelReservation("adm", id)
                       => resp'.status = 200 /\ reservations'[id].status = "cancelled"
      ]_vars

\* the owner's cancellation of a reservation of deactivated room "r1" was
\* accepted while another reservation of that room is still confirmed
C32_Witness ==
    /\ resp = Response("cancelReservation", 200, MsgCancelled)
    /\ ~rooms["r1"].isActive
    /\ \E i, j \in DOMAIN reservations :
         /\ reservations[i].room = "r1" /\ reservations[i].status = "cancelled"
         /\ reservations[j].room = "r1" /\ reservations[j].status = "confirmed"

\* C33: a request behind auth made with a signed token whose user is deleted
\* or deactivated is answered 401 and changes nothing; and whether a request
\* passes authorize('admin') depends on the role stored for the token's user
\* at that moment, not on the role written in the token.
C33_AuthorizedAgainstStoredUser ==
    [][\A t \in issued.jwt :
         /\ (/\ t.id \notin DOMAIN users \/ ~users[t.id].isActive
             /\ ~(/\ resp'.status = 401
                  /\ UNCHANGED <<now, rooms, reservations, inflight, users, issued>>))
            => /\ ~authenticated(t, createReservation(t.id, "r1", 3 * MsPerHour,
                                                      4 * MsPerHour, 1))
               /\ \A rid \in ReservationIds :
                    ~authenticated(t, cancelReservation(t.id, rid))
               /\ \A id \in {"u1", "adm"} :
                    /\ \A r \in Roles : ~authenticated(t, updateUserRole(t.id, id, r))
                    /\ ~authenticated(t, deleteUser(t.id, id))
                    /\ ~authenticated(t, toggleUserStatus(t.id, id))
         /\ (t.id \in DOMAIN users /\ users[t.id].isActive /\ t.role # users[t.id].role)
            => \A id \in {"u1", "adm"} :
                 ((\E r \in Roles : authenticated(t, updateUserRole(t.id, id, r)))
                  \/ authenticated(t, deleteUser(t.id, id))
                  \/ authenticated(t, toggleUserStatus(t.id, id)))
                 => /\ resp'.status = 403 <=> users[t.id].role = "user"
                    /\ users[t.id].role = "user" => users' = users
                    /\ (users[t.id].role = "admin" /\ id # t.id /\ id \in DOMAIN users)
                         => resp'.status = 200
      ]_vars

\* a request with the token of a deactivated user was answered 401 while an
\* account that was a plain user when its first token was signed is admin
C33_Witness ==
    /\ resp = Response("auth", 401, "Account is deactivated.")
    /\ \E u \in DOMAIN users : ~users[u].isActive
    /\ \E t \in issued.jwt :
         t.id \in DOMAIN users /\ t.role = "user" /\ users[t.id].role = "admin"

\* C34: updateUserRole, deleteUser and toggleUserStatus requested by an admin
\* for the admin's own id are answered 400 and leave the User collection,
\* and so that account's role, existence and isActive flag, as they were.
C34_NoSelfAdministration ==
    [][resp'.op \in {"updateUserRole", "deleteUser", "toggleUserStatus"} =>
         \A t \in issued.jwt :
           (/\ auth(t) = ""
            /\ role(t.id) = "admin"
            /\ \/ \E r \in Roles \cup {"owner"} : updateUserRole(t.id, t.id, r)
               \/ deleteUser(t.id, t.id)
               \/ toggleUserStatus(t.id, t.id))
           => /\ resp'.status = 400
              /\ users' = users
      ]_vars

\* a toggleUserStatus was refused because its target was the requesting
\* admin, and an active admin account exists
C34_Witness ==
    /\ resp = Response("toggleUserStatus", 400, "Cannot modify your own account status")
    /\ \E u \in DOMAIN users : users[u].role = "admin" /\ users[u].isActive

\* C35: whatever updateUserRole, deleteUser and toggleUserStatus requests
\* run, and however their steps interleave, an active account with role
\* admin exists.
C35_AdminNeverLockedOut ==
    \E u \in DOMAIN users : users[u].role = "admin" /\ users[u].isActive

\* C36: an account comes to have role admin only by an updateUserRole request
\* of an active admin: no register, login, updateProfile, changePassword,
\* forgotPassword or resetPassword request creates an admin account or turns
\* an account into one.
C36_AdminOnlyByAdmin ==
    [][\A u \in DOMAIN users' :
         (users'[u].role = "admin" /\ (u \notin DOMAIN users \/ users[u].role # "admin"))
         => /\ resp'.op = "updateUserRole"
            /\ resp'.status = 200
            /\ \E t \in issued.jwt :
                 auth(t) = "" /\ role(t.id) = "admin" /\ updateUserRole(t.id, u, "admin")
      ]_vars

\* C37: no two rooms, active or deactivated, have the same name in the same
\* building.
C37_RoomNameUniquePerBuilding ==
    \A a, b \in DOMAIN rooms :
        a # b => ~(rooms[a].name = rooms[b].name /\ rooms[a].building = rooms[b].building)

\* C38: resetPassword changes a password only for the account that holds
\* the submitted token, only while the clock is before the token's expiry,
\* and then removes the token; every other resetPassword is answered 400
\* and changes no account.  A token is put on an account only by
\* forgotPassword, is new, and expires ResetTokenLifetime after that moment;
\* a token that was issued and is on no account (used or replaced) is never
\* on an account again, and no account holds a token that was not issued.
C38_ResetTokenOnceAndInTime ==
    [][/\ resp'.op = "resetPassword" =>
            \A k \in 1..(MaxResetTokens + 1) :
              resetPassword(k, "newpass1")
              => IF \E u \in DOMAIN users : /\ users[u].passwordResetToken = k
                                            /\ now < users[u].passwordResetExpires
                 THEN /\ resp'.status = 200
                      /\ \A u \in DOMAIN users :
                           /\ users'[u].passwordResetToken # k
                           /\ users'[u].password # users[u].password
                                => users[u].passwordResetToken = k
                 ELSE /\ resp'.status = 400
                      /\ users' = users
       /\ \A u \in DOMAIN users : users[u].passwordResetToken <= issued.resetTokens
       /\ \A k \in 1..MaxResetTokens :
            (k <= issued.resetTokens /\ \A u \in DOMAIN users : users[u].passwordResetToken # k)
            => \A u \in DOMAIN users' : users'[u].passwordResetToken # k
       /\ \A u \in DOMAIN users \cap DOMAIN users' :
            (\/ users'[u].passwordResetToken # users[u].passwordResetToken
             \/ users'[u].passwordResetExpires # users[u].passwordResetExpires)
            => \/ /\ resp'.op = "resetPassword"
                  /\ users'[u].passwordResetToken = NoResetToken
               \/ /\ resp'.op = "forgotPassword"
                  /\ users'[u].passwordResetToken = issued.resetTokens + 1
                  /\ users'[u].passwordResetExpires = now + ResetTokenLifetime
      ]_vars

\* a resetPassword was refused while one account has a password set by a
\* reset and no token, and another account holds a token that has expired
C38_Witness ==
    /\ resp = Response("resetPassword", 400, "Invalid or expired reset token")
    /\ \E u \in DOMAIN users : /\ users[u].password = "newpass1"
                               /\ users[u].passwordResetToken = NoResetToken
    /\ \E u \in DOMAIN users : /\ users[u].passwordResetToken # NoResetToken
                               /\ users[u].passwordResetExpires <= now
\* C39: the response that forgotPassword sends for the email of a stored
\* account equals, in status, message and data, the response it would send
\* in the state that differs only in that account being absent.
C39_ForgotPasswordHidesAccounts ==
    [][resp'.op = "forgotPassword" =>
         \A e \in {"u1", "u2", "nobody"} :
           forgotPassword(e)
           => \A u \in DOMAIN users :
                users[u].email = e
                => resp' = forgotPasswordResponse([v \in DOMAIN users \ {u} |-> users[v]],
                                                  issued.resetTokens, e)
      ]_vars
====
